---- MODULE Spec2Model ----
(***************************************************************************)
(* Model of zap's document builder (zap-core/src/markdown.rs).             *)
(*                                                                         *)
(* get_page_structured reads a markdown page, runs the pulldown-cmark      *)
(* tokenizer over it and folds the resulting event stream into a vector of *)
(* PageElement with an explicit stack of ElementBuilder frames.  The model *)
(* takes one step per event of the stream.                                 *)
(*                                                                         *)
(* Encoding of the Rust values:                                            *)
(*   String        a sequence of one-character strings, <<"a", "<">>       *)
(*   Option<T>     None = <<>>, Some(x) = <<x>>                            *)
(*   Vec<T>        a sequence                                              *)
(*   enum variant  a record whose first field (tag, e, k or t) names it    *)
(***************************************************************************)
EXTENDS Integers, Sequences, FiniteSets, TLC

\* ------------------------------------------------------------------ bounds

\* The longest event stream explored.
MaxEvents == 5

\* The deepest builder stack explored.
MaxDepth == 3

\* ----------------------------------------------------------------- helpers

None == <<>>

Some(x) == <<x>>

Last(s) == s[Len(s)]

Front(s) == SubSeq(s, 1, Len(s) - 1)

\* Vec::last_mut followed by an update of the frame it returns.
SetLast(s, x) == [s EXCEPT ![Len(s)] = x]

\* ------------------------------------------------------------ the tokenizer

\* The classes of page the tokenizer is run on: each class fixes the markdown
\* constructs that occur in the page, hence the tags of its event stream.
PageKinds == {"quote", "code", "list", "inline", "table"}

Texts == {<<"a">>, <<"b">>}

\* pulldown_cmark::Tag, as far as from_tag distinguishes its variants.
\* HtmlBlock stands for every tag of from_tag's fallback arm.
TagsOf(kind) ==
    CASE kind = "quote" ->
           { [tag |-> "Heading", level |-> 1],
             [tag |-> "Paragraph"],
             [tag |-> "BlockQuote"],
             [tag |-> "HtmlBlock"] }
      [] kind = "code" ->
           { [tag |-> "CodeBlock", fenced |-> FALSE, lang |-> <<>>],
             [tag |-> "CodeBlock", fenced |-> TRUE, lang |-> <<>>],
             [tag |-> "CodeBlock", fenced |-> TRUE, lang |-> <<"r", "s">>],
             [tag |-> "BlockQuote"] }
      [] kind = "list" ->
           { [tag |-> "List", start |-> None],
             [tag |-> "List", start |-> Some(1)],
             [tag |-> "Item"],
             [tag |-> "Paragraph"] }
      [] kind = "inline" ->
           { [tag |-> "Paragraph"],
             [tag |-> "Emphasis"],
             [tag |-> "Strong"],
             [tag |-> "Strikethrough"],
             [tag |-> "Link", dest_url |-> <<"u">>, title |-> <<>>],
             [tag |-> "Image", dest_url |-> <<"v">>, title |-> <<"t">>] }
      [] kind = "table" ->
           { [tag |-> "Table"],
             [tag |-> "TableHead"],
             [tag |-> "TableRow"],
             [tag |-> "TableCell"] }

\* The atomic events that occur in a page of each class.
AtomsOf(kind) ==
    CASE kind = "quote" -> {"Text", "Rule", "Html"}
      [] kind = "code" -> {"Text", "Code", "SoftBreak"}
      [] kind = "list" -> {"Text", "Other"}
      [] kind = "inline" -> {"Text", "Code", "SoftBreak", "HardBreak"}
      [] kind = "table" -> {"Text"}

\* pulldown_cmark::TagEnd: the payload of an End event.
TagEnds == {"Paragraph", "Item"}

\* -------------------------------------------------------------------- state

VARIABLES
    phase,        \* "read", "loop", "returned" or "panicked"
    pageKind,     \* the class of the page being parsed
    elements,     \* get_page_structured's `elements`
    stack,        \* get_page_structured's `stack`
    ev,           \* history: the event handled last
    n,            \* history: the number of events handled
    preStack,     \* history: `stack` before the last event
    preElements,  \* history: `elements` before the last event
    startedAt,    \* history: per frame, the index of its Start event and of
                  \*          the first event of each kept block child
    emittedAt,    \* history: per top-level element, the index of its first event
    depth,        \* history: the Starts handled minus the Ends handled while
                  \*          that count was positive
    syntaxSet,    \* markdown.rs's SYNTAX_SET, and whether highlighting fails
    doc,          \* the PageElement sequence given to render_elements_to_html
    page_content, \* None, or Some(the HTML string it returned)
    heading,      \* the inline content of a Heading a NavItem is made from
    nav,          \* None, or Some(the NavItem made from `heading`)
    site,         \* the Site render_all runs on: pages, collections, home_config
    at,           \* where render_all is: loop or end, collection, page
    outputs,      \* the files render_all has written, in order
    mainPc,       \* where serve's execute is
    watcherPc,    \* where the task running watch_source_files is
    serverPc,     \* where the task running LiveServer::run is
    rx,           \* the paths sent on the watcher's channel and not yet received
    builds,       \* history: per build_site_with_livereload call, by whom and
                  \*          how far it is
    taken,        \* history: per path received, the calls in flight then
    sent,         \* history: the number of paths the debouncer has sent
    args,         \* the command line ZapConfig::load is given
    env,          \* the ZAP_* environment variables
    file,         \* the keys the configuration file sets
    zap_config,   \* None, or Some(what ZapConfig::load returned)
    tree,         \* the files and directories under the scanned source_dir
    scan,         \* where SiteScanner::scan is, and what it has collected
    renderer,     \* the Renderer: its global context, and whether it is in use
    renders,      \* history: per Renderer::render call, what it was given,
                  \*          what it handed to the templates and what it left
    clock,        \* the time in ms since LiveServer::run began
    watcher,      \* start_file_watcher: where it is, and its last_reload
    changed,      \* the paths sent on the file watcher's channel, not yet received
    handled,      \* history: per path received, the time, last_reload before
                  \*          and after, and whether "reload" was broadcast
    changedAt,    \* history: None, or Some(the time of the last path sent)
    bus,          \* the broadcast channel of LiveServer::run
    conn,         \* per websocket connection: where websocket_connection is,
                  \*          its receiver, and how its last turn ended
    socket,       \* per websocket connection: the client's end
    wire,         \* history: per connection, what was sent to the client
    sourcePages,  \* the output paths of the pages the source holds
    outputDir,    \* the files of the output directory and their content
    rounds        \* history: what each build_site_with_livereload returned
                  \*          and the pages it wrote

builderVars == <<phase, pageKind, elements, stack, ev, n, preStack, preElements,
                 startedAt, emittedAt, depth>>

renderVars == <<syntaxSet, doc, page_content>>

navVars == <<heading, nav>>

siteVars == <<site, at, outputs>>

serveVars == <<mainPc, watcherPc, serverPc, rx, builds, taken, sent>>

configVars == <<args, env, file, zap_config>>

scanVars == <<tree, scan>>

rendererVars == <<renderer, renders>>

reloadVars == <<clock, watcher, changed, handled, changedAt>>

socketVars == <<bus, conn, socket, wire>>

injectVars == <<sourcePages, outputDir, rounds>>

vars == <<builderVars, renderVars, navVars, siteVars, serveVars, configVars, scanVars, rendererVars, reloadVars, socketVars, injectVars>>

\* syntect's default syntaxes as far as the pages use them: the fence tags
\* find_syntax_by_token knows and the names find_syntax_by_name knows.
DefaultSyntaxSet ==
    [tokens |-> {<<"r", "s">>},
     names |-> {<<"J", "a", "v", "a", "S", "c", "r", "i", "p", "t">>,
                <<"Y", "A", "M", "L">>},
     fails |-> FALSE]

\* No page is being rendered.
RenderIdle == syntaxSet = DefaultSyntaxSet /\ doc = <<>> /\ page_content = <<>>

\* No NavItem is being made.
NavIdle == heading = <<>> /\ nav = <<>>

\* render_all is not running.
SiteIdle == site = <<>> /\ at = <<>> /\ outputs = <<>>

\* The serve command is not running.
ServeIdle ==
    /\ mainPc = <<>> /\ watcherPc = <<>> /\ serverPc = <<>>
    /\ rx = <<>> /\ builds = <<>> /\ taken = <<>> /\ sent = 0

\* No configuration is being loaded.
ConfigIdle == args = <<>> /\ env = <<>> /\ file = <<>> /\ zap_config = <<>>

\* No directory is being scanned.
ScanIdle == tree = <<>> /\ scan = <<>>

\* No Renderer has been made.
RendererIdle == renderer = <<>> /\ renders = <<>>

\* No dev server is watching.
ReloadIdle ==
    /\ clock = 0 /\ watcher = <<>> /\ changed = <<>>
    /\ handled = <<>> /\ changedAt = <<>>

\* No dev server is running.
SocketIdle == bus = <<>> /\ conn = <<>> /\ socket = <<>> /\ wire = <<>>

\* Nothing has been built for serving.
InjectIdle == sourcePages = {} /\ outputDir = <<>> /\ rounds = <<>>

\* ------------------------------------------------------------- html_escape

\* html_escape::encode_text, one character.
EncodeTextChar(c) ==
    CASE c = "&" -> <<"&", "a", "m", "p", ";">>
      [] c = "<" -> <<"&", "l", "t", ";">>
      [] c = ">" -> <<"&", "g", "t", ";">>
      [] OTHER -> <<c>>

RECURSIVE encode_text(_)
\* html_escape::encode_text.
encode_text(s) ==
    IF s = <<>> THEN <<>>
    ELSE EncodeTextChar(Head(s)) \o encode_text(Tail(s))

\* ------------------------------------------------------- the inline flattener

RECURSIVE render_inline_elements_text_BreakLost(_)
\* The flattener with a HardBreak contributing nothing.
render_inline_elements_text_BreakLost(els) ==
    IF els = <<>> THEN <<>>
    ELSE LET element == Head(els)
             piece ==
                 CASE element.t = "Text" -> element.s
                   [] element.t = "Link" -> element.text
                   [] element.t = "Image" -> element.alt
                   [] element.t = "Emphasis" ->
                        render_inline_elements_text_BreakLost(element.content)
                   [] element.t = "Code" -> element.s
                   [] element.t = "SoftBreak" -> <<" ">>
                   [] element.t = "HardBreak" -> <<>>
                   [] element.t = "Strikethrough" ->
                        render_inline_elements_text_BreakLost(element.content)
         IN  piece \o render_inline_elements_text_BreakLost(Tail(els))

RECURSIVE render_inline_elements_text_Escaped(_)
\* The flattener with Text pushed HTML-escaped.
render_inline_elements_text_Escaped(els) ==
    IF els = <<>> THEN <<>>
    ELSE LET element == Head(els)
             piece ==
                 CASE element.t = "Text" -> encode_text(element.s)
                   [] element.t = "Link" -> element.text
                   [] element.t = "Image" -> element.alt
                   [] element.t = "Emphasis" ->
                        render_inline_elements_text_Escaped(element.content)
                   [] element.t = "Code" -> element.s
                   [] element.t \in {"SoftBreak", "HardBreak"} -> <<" ">>
                   [] element.t = "Strikethrough" ->
                        render_inline_elements_text_Escaped(element.content)
         IN  piece \o render_inline_elements_text_Escaped(Tail(els))

RECURSIVE render_inline_elements_text(_)
\* The plain text of an inline sequence.
render_inline_elements_text(els) ==
    IF els = <<>> THEN <<>>
    ELSE LET element == Head(els)
             piece ==
                 CASE element.t = "Text" -> element.s
                   [] element.t = "Link" -> element.text
                   [] element.t = "Image" -> element.alt
                   [] element.t = "Emphasis" ->
                        render_inline_elements_text(element.content)
                   [] element.t = "Code" -> element.s
                   [] element.t \in {"SoftBreak", "HardBreak"} -> <<" ">>
                   [] element.t = "Strikethrough" ->
                        render_inline_elements_text(element.content)
         IN  piece \o render_inline_elements_text(Tail(els))

\* ----------------------------------------------------------- ElementBuilder

\* The BuilderKind a tag is given.
KindOfTag(tag) ==
    CASE tag.tag = "Heading" -> [k |-> "Heading", level |-> tag.level]
      [] tag.tag = "Paragraph" -> [k |-> "Paragraph"]
      [] tag.tag = "CodeBlock" ->
           IF tag.fenced
           THEN [k |-> "CodeBlock",
                 language |-> IF tag.lang = <<>> THEN None ELSE Some(tag.lang)]
           ELSE [k |-> "CodeBlock", language |-> None]
      [] tag.tag = "List" -> [k |-> "List", ordered |-> tag.start # None]
      [] tag.tag = "Item" -> [k |-> "ListItem", checked |-> None]
      [] tag.tag = "BlockQuote" -> [k |-> "BlockQuote"]
      [] tag.tag = "Table" -> [k |-> "Table"]
      [] tag.tag = "TableHead" -> [k |-> "TableHead"]
      [] tag.tag = "TableRow" -> [k |-> "TableRow"]
      [] tag.tag = "TableCell" -> [k |-> "TableCell"]
      [] tag.tag = "Emphasis" -> [k |-> "Emphasis", level |-> 1]
      [] tag.tag = "Strong" -> [k |-> "Emphasis", level |-> 2]
      [] tag.tag = "Strikethrough" -> [k |-> "Strikethrough"]
      [] tag.tag = "Link" ->
           [k |-> "Link", url |-> tag.dest_url,
            title |-> IF tag.title = <<>> THEN None ELSE Some(tag.title)]
      [] tag.tag = "Image" ->
           [k |-> "Image", url |-> tag.dest_url,
            title |-> IF tag.title = <<>> THEN None ELSE Some(tag.title)]
      [] OTHER -> [k |-> "Paragraph"]

\* TableBuilder::default().
TableBuilderDefault == [headers |-> <<>>, rows |-> <<>>, current_row |-> <<>>]

\* ElementBuilder::from_tag: a frame of the tag's kind with empty buffers.
from_tag(tag) ==
    [kind |-> KindOfTag(tag),
     inline_content |-> <<>>,
     block_content |-> <<>>,
     list_items |-> <<>>,
     table_data |-> TableBuilderDefault]

\* ElementBuilder::add_inline.
add_inline(self, elem) ==
    [self EXCEPT !.inline_content = Append(@, elem)]

\* add_child with a list item's frame keeping the child as well.
add_child_ItemKeeps(self, child) ==
    IF child # None /\ self.kind.k \in {"BlockQuote", "ListItem"}
    THEN [self EXCEPT !.block_content = Append(@, child[1])]
    ELSE self

\* add_child with the List arm keeping the child as the BlockQuote arm does.
add_child_ListKeeps(self, child) ==
    IF child # None /\ self.kind.k \in {"BlockQuote", "List"}
    THEN [self EXCEPT !.block_content = Append(@, child[1])]
    ELSE self

\* ElementBuilder::add_child: only a BlockQuote frame keeps a block child.
add_child(self, child) ==
    IF child # None
    THEN CASE self.kind.k = "BlockQuote" ->
                [self EXCEPT !.block_content = Append(@, child[1])]
           [] self.kind.k = "List" -> self
           [] OTHER -> self
    ELSE self

\* The Paragraph arm without its is_empty test.
BuildParagraph_Always(self) ==
    Some([t |-> "Paragraph", content |-> self.inline_content])

\* build, the Paragraph arm.
BuildParagraph(self) ==
    IF self.inline_content # <<>>
    THEN Some([t |-> "Paragraph", content |-> self.inline_content])
    ELSE None

RECURSIVE CollectText(_)
\* The map(..).collect::<String>() of the CodeBlock arm.
CollectText(inl) ==
    IF inl = <<>> THEN <<>>
    ELSE (IF Head(inl).t = "Text" THEN Head(inl).s ELSE <<>>)
         \o CollectText(Tail(inl))

\* The CodeBlock arm flattening its buffer with the shared inline flattener.
BuildCodeBlock_Flatten(self) ==
    Some([t |-> "CodeBlock", language |-> self.kind.language,
          content |-> render_inline_elements_text(self.inline_content)])

\* build, the CodeBlock arm.
BuildCodeBlock(self) ==
    Some([t |-> "CodeBlock", language |-> self.kind.language,
          content |-> CollectText(self.inline_content)])

\* ElementBuilder::build.
build(self) ==
    CASE self.kind.k = "Heading" ->
           Some([t |-> "Heading", level |-> self.kind.level,
                 content |-> self.inline_content])
      [] self.kind.k = "Paragraph" -> BuildParagraph(self)
      [] self.kind.k = "CodeBlock" -> BuildCodeBlock(self)
      [] self.kind.k = "List" ->
           Some([t |-> "List", items |-> self.list_items,
                 ordered |-> self.kind.ordered])
      [] self.kind.k = "BlockQuote" ->
           Some([t |-> "BlockQuote", content |-> self.block_content])
      [] self.kind.k = "ListItem" -> None
      [] OTHER -> None

\* ------------------------------------------------- get_page_structured's loop

InlineKinds == {"Emphasis", "Strikethrough", "Link", "Image"}

\* CloseListItem without the test of the parent's kind.
CloseListItem_AnyParent(builder, rest) ==
    IF rest # <<>>
    THEN SetLast(rest,
             [Last(rest) EXCEPT !.list_items =
                 Append(@, [content |-> builder.inline_content,
                            sub_items |-> <<>>,
                            checked |-> None])])
    ELSE rest

\* Event::End, a popped list-item frame: `rest` is the stack after the pop.
CloseListItem(builder, rest) ==
    IF rest # <<>> /\ Last(rest).kind.k = "List"
    THEN SetLast(rest,
             [Last(rest) EXCEPT !.list_items =
                 Append(@, [content |-> builder.inline_content,
                            sub_items |-> <<>>,
                            checked |-> None])])
    ELSE rest

\* InlineOf with Link text and Image alt taken from the Text fragments alone.
InlineOf_TextOnly(builder) ==
    CASE builder.kind.k = "Emphasis" ->
           [t |-> "Emphasis", level |-> builder.kind.level,
            content |-> builder.inline_content]
      [] builder.kind.k = "Strikethrough" ->
           [t |-> "Strikethrough", content |-> builder.inline_content]
      [] builder.kind.k = "Link" ->
           [t |-> "Link", text |-> CollectText(builder.inline_content),
            url |-> builder.kind.url, title |-> builder.kind.title]
      [] builder.kind.k = "Image" ->
           [t |-> "Image", alt |-> CollectText(builder.inline_content),
            url |-> builder.kind.url, title |-> builder.kind.title]

\* The InlineElement a popped inline frame becomes.
InlineOf(builder) ==
    CASE builder.kind.k = "Emphasis" ->
           [t |-> "Emphasis", level |-> builder.kind.level,
            content |-> builder.inline_content]
      [] builder.kind.k = "Strikethrough" ->
           [t |-> "Strikethrough", content |-> builder.inline_content]
      [] builder.kind.k = "Link" ->
           [t |-> "Link",
            text |-> render_inline_elements_text(builder.inline_content),
            url |-> builder.kind.url, title |-> builder.kind.title]
      [] builder.kind.k = "Image" ->
           [t |-> "Image",
            alt |-> render_inline_elements_text(builder.inline_content),
            url |-> builder.kind.url, title |-> builder.kind.title]

\* CloseInline putting the element in front of the parent's buffer.
CloseInline_Front(builder, rest) ==
    IF rest # <<>>
    THEN SetLast(rest,
             [Last(rest) EXCEPT !.inline_content = <<InlineOf(builder)>> \o @])
    ELSE rest

\* Event::End, a popped Emphasis, Strikethrough, Link or Image frame.
CloseInline(builder, rest) ==
    IF rest # <<>>
    THEN SetLast(rest, add_inline(Last(rest), InlineOf(builder)))
    ELSE rest

\* Event::End, any other popped frame.
CloseBlock(builder, rest, elems) ==
    LET element == build(builder)
    IN  IF rest = <<>>
        THEN [stack |-> rest,
              elements |-> IF element # None
                           THEN Append(elems, element[1]) ELSE elems]
        ELSE [stack |-> SetLast(rest, add_child(Last(rest), element)),
              elements |-> elems]

\* OnStart opening no frame for a tag of from_tag's fallback arm.
OnStart_KnownTagsOnly(st, elems, tag) ==
    IF tag.tag = "HtmlBlock"
    THEN [stack |-> st, elements |-> elems]
    ELSE [stack |-> Append(st, from_tag(tag)), elements |-> elems]

\* Event::Start(tag).
OnStart(st, elems, tag) ==
    [stack |-> Append(st, from_tag(tag)), elements |-> elems]

\* OnEnd closing an empty paragraph when there is no frame to pop.
OnEnd_OrphanEmits(st, elems) ==
    IF st = <<>>
    THEN [stack |-> st,
          elements |-> Append(elems, [t |-> "Paragraph", content |-> <<>>])]
    ELSE LET builder == Last(st)
             rest == Front(st)
         IN  IF builder.kind.k = "ListItem"
             THEN [stack |-> CloseListItem(builder, rest), elements |-> elems]
             ELSE IF builder.kind.k \in InlineKinds
             THEN [stack |-> CloseInline(builder, rest), elements |-> elems]
             ELSE CloseBlock(builder, rest, elems)

\* Event::End(_): the TagEnd is not looked at.
OnEnd(st, elems) ==
    IF st = <<>>
    THEN [stack |-> st, elements |-> elems]
    ELSE LET builder == Last(st)
             rest == Front(st)
         IN  IF builder.kind.k = "ListItem"
             THEN [stack |-> CloseListItem(builder, rest), elements |-> elems]
             ELSE IF builder.kind.k \in InlineKinds
             THEN [stack |-> CloseInline(builder, rest), elements |-> elems]
             ELSE CloseBlock(builder, rest, elems)

\* OnInline with a HardBreak stored as a SoftBreak.
OnInline_BreaksMerged(st, elems, elem) ==
    IF st # <<>>
    THEN [stack |-> SetLast(st, add_inline(Last(st),
                        IF elem.t = "HardBreak" THEN [t |-> "SoftBreak"] ELSE elem)),
          elements |-> elems]
    ELSE [stack |-> st, elements |-> elems]

\* Event::Text, Code, SoftBreak, HardBreak: `elem` goes to the top frame.
OnInline(st, elems, elem) ==
    IF st # <<>>
    THEN [stack |-> SetLast(st, add_inline(Last(st), elem)), elements |-> elems]
    ELSE [stack |-> st, elements |-> elems]

\* OnRule handing the rule to the open frame, as a closed block is.
OnRule_Nested(st, elems) ==
    IF st = <<>>
    THEN [stack |-> st, elements |-> Append(elems, [t |-> "HorizontalRule"])]
    ELSE [stack |-> SetLast(st, add_child(Last(st),
                                          Some([t |-> "HorizontalRule"]))),
          elements |-> elems]

\* Event::Rule.
OnRule(st, elems) ==
    [stack |-> st, elements |-> Append(elems, [t |-> "HorizontalRule"])]

\* Event::Html(html).
OnHtml(st, elems, html) ==
    [stack |-> st, elements |-> Append(elems, [t |-> "Html", content |-> html])]

\* Every other event (the `_ => {}` arm).
OnOther(st, elems) ==
    [stack |-> st, elements |-> elems]

\* ------------------------------------------------------------------ history

\* The index of the first event of what the event being handled emits: its own
\* index, or for an End the index of the Start that opened the popped frame.
Origin(event) ==
    IF event.e = "End" /\ startedAt # <<>> THEN Last(startedAt).at ELSE n + 1

\* startedAt after `event` took the stack from `st` to `st2`.
StartedAfter(event, st, st2) ==
    IF Len(st2) > Len(st)
    THEN Append(startedAt, [at |-> n + 1, kids |-> <<>>])
    ELSE LET base == IF Len(st2) < Len(st) THEN Front(startedAt) ELSE startedAt
         IN  IF /\ st2 # <<>>
                /\ Len(st2[Len(st2)].block_content)
                     > Len(st[Len(st2)].block_content)
             THEN SetLast(base, [Last(base) EXCEPT
                                    !.kids = Append(@, Origin(event))])
             ELSE base

\* One turn of the loop: `event` was handled with result r.
Handled(event, r) ==
    /\ phase' = phase
    /\ pageKind' = pageKind
    /\ stack' = r.stack
    /\ elements' = r.elements
    /\ ev' = Some(event)
    /\ n' = n + 1
    /\ preStack' = stack
    /\ preElements' = elements
    /\ startedAt' = StartedAfter(event, stack, r.stack)
    /\ emittedAt' = IF Len(r.elements) > Len(elements)
                    THEN Append(emittedAt, Origin(event))
                    ELSE emittedAt
    /\ depth' = CASE event.e = "Start" -> depth + 1
                  [] event.e = "End" /\ depth > 0 -> depth - 1
                  [] OTHER -> depth
    /\ UNCHANGED <<renderVars, navVars, siteVars, serveVars, configVars, scanVars, rendererVars, reloadVars, socketVars, injectVars>>

\* ------------------------------------------------------------------ actions

Init ==
    /\ phase = "read"
    /\ pageKind \in PageKinds
    /\ elements = <<>>
    /\ stack = <<>>
    /\ ev = None
    /\ n = 0
    /\ preStack = <<>>
    /\ preElements = <<>>
    /\ startedAt = <<>>
    /\ emittedAt = <<>>
    /\ depth = 0
    /\ RenderIdle
    /\ NavIdle
    /\ SiteIdle
    /\ ServeIdle
    /\ ConfigIdle
    /\ ScanIdle
    /\ RendererIdle
    /\ ReloadIdle
    /\ SocketIdle
    /\ InjectIdle

\* read_to_string(path).expect(..): the page is read, or the call panics.
ReadPage ==
    /\ phase = "read"
    /\ \E readable \in BOOLEAN :
          phase' = IF readable THEN "loop" ELSE "panicked"
    /\ UNCHANGED <<pageKind, elements, stack, ev, n, preStack, preElements,
                   startedAt, emittedAt, depth>>
    /\ UNCHANGED <<renderVars, navVars, siteVars, serveVars, configVars, scanVars, rendererVars, reloadVars, socketVars, injectVars>>

More == phase = "loop" /\ n < MaxEvents

StartEvent ==
    /\ More
    /\ Len(stack) < MaxDepth
    /\ \E tag \in TagsOf(pageKind) :
          Handled([e |-> "Start", tag |-> tag], OnStart(stack, elements, tag))

EndEvent ==
    /\ More
    /\ \E end \in TagEnds :
          Handled([e |-> "End", end |-> end], OnEnd(stack, elements))

TextEvent ==
    /\ More
    /\ "Text" \in AtomsOf(pageKind)
    /\ \E text \in Texts :
          Handled([e |-> "Text", s |-> text],
                  OnInline(stack, elements, [t |-> "Text", s |-> text]))

CodeEvent ==
    /\ More
    /\ "Code" \in AtomsOf(pageKind)
    /\ Handled([e |-> "Code", s |-> <<"c">>],
               OnInline(stack, elements, [t |-> "Code", s |-> <<"c">>]))

SoftBreakEvent ==
    /\ More
    /\ "SoftBreak" \in AtomsOf(pageKind)
    /\ Handled([e |-> "SoftBreak"],
               OnInline(stack, elements, [t |-> "SoftBreak"]))

HardBreakEvent ==
    /\ More
    /\ "HardBreak" \in AtomsOf(pageKind)
    /\ Handled([e |-> "HardBreak"],
               OnInline(stack, elements, [t |-> "HardBreak"]))

RuleEvent ==
    /\ More
    /\ "Rule" \in AtomsOf(pageKind)
    /\ Handled([e |-> "Rule"], OnRule(stack, elements))

HtmlEvent ==
    /\ More
    /\ "Html" \in AtomsOf(pageKind)
    /\ Handled([e |-> "Html", s |-> <<"<", "i", ">">>],
               OnHtml(stack, elements, <<"<", "i", ">">>))

\* TaskListMarker, InlineHtml, FootnoteReference, ...
OtherEvent ==
    /\ More
    /\ "Other" \in AtomsOf(pageKind)
    /\ Handled([e |-> "Other"], OnOther(stack, elements))

\* The stream is exhausted: `elements` is returned and the stack is dropped.
Return ==
    /\ phase = "loop"
    /\ phase' = "returned"
    /\ stack' = <<>>
    /\ startedAt' = <<>>
    /\ ev' = None
    /\ preStack' = stack
    /\ preElements' = elements
    /\ UNCHANGED <<pageKind, elements, n, emittedAt, depth>>
    /\ UNCHANGED <<renderVars, navVars, siteVars, serveVars, configVars, scanVars, rendererVars, reloadVars, socketVars, injectVars>>

Next ==
    \/ ReadPage
    \/ StartEvent
    \/ EndEvent
    \/ TextEvent
    \/ CodeEvent
    \/ SoftBreakEvent
    \/ HardBreakEvent
    \/ RuleEvent
    \/ HtmlEvent
    \/ OtherEvent
    \/ Return

Spec == Init /\ [][Next]_vars

\* ------------------------------------------------- reading the last event

IsPrefix(a, b) == Len(a) <= Len(b) /\ SubSeq(b, 1, Len(a)) = a

Increasing(s) == \A i \in 1..Len(s) : \A j \in 1..Len(s) : i < j => s[i] < s[j]

\* The last step handled an event named `name`.
Was(name) == ev # None /\ ev[1].e = name

\* The last step was an End that popped a frame.
Closed == Was("End") /\ preStack # <<>>

\* The frame the last End popped, and the stack it left.
Popped == Last(preStack)

Rest == Front(preStack)

\* The last End popped a frame of one of `kinds`.
ClosedKind(kinds) == Closed /\ Popped.kind.k \in kinds

\* The stack is Rest with its top frame replaced by `frame`.
OnlyTopBecame(frame) == stack = SetLast(Rest, frame)

\* --------------------------------------------------------------- the claims

\* C1: an End event that arrives while the builder stack is empty is dropped:
\* the builder does not fail and goes on, the stack stays empty and the
\* top-level output is what it was before the event, so the events that follow
\* are handled as if the orphan End had not been in the stream.
C1_OrphanEndDropped ==
    (Was("End") /\ preStack = <<>>) =>
        /\ phase = "loop"
        /\ stack = <<>>
        /\ elements = preElements

\* C1 witness: an orphan End was handled after a top-level block was emitted.
C1_Witness ==
    /\ Was("End")
    /\ preStack = <<>>
    /\ preElements # <<>>
    /\ \E i \in 1..Len(elements) : elements[i].t \in {"Heading", "Paragraph"}

\* C2: every PageElement sequence is in source document order: of two elements
\* of the top-level output, or of one BlockQuote's children, the one whose
\* events begin first comes first.
C2_DocumentOrder ==
    /\ Increasing(emittedAt)
    /\ \A i \in 1..Len(startedAt) : Increasing(startedAt[i].kids)

BlockKinds == {"Heading", "Paragraph", "CodeBlock", "List", "BlockQuote"}

\* C3: when an End pops a Heading, Paragraph, CodeBlock, List or BlockQuote
\* frame that finalizes to an element, the element is appended to the
\* top-level output iff the stack is empty after the pop; otherwise the output
\* is unchanged and the new top frame appends it to its block children if it
\* is a BlockQuote and is left as it was if it is of any other kind.
C3_BlockRouting ==
    (ClosedKind(BlockKinds) /\ build(Popped) # None) =>
        LET elem == build(Popped)[1]
        IN  /\ Len(stack) = Len(preStack) - 1
            /\ (elements = Append(preElements, elem)) <=> (stack = <<>>)
            /\ stack # <<>> =>
                  /\ elements = preElements
                  /\ IF Last(Rest).kind.k = "BlockQuote"
                     THEN OnlyTopBecame(
                              [Last(Rest) EXCEPT
                                  !.block_content = Append(@, elem)])
                     ELSE stack = Rest
            /\ stack = <<>> => Rest = <<>>

\* C3 witness: a block was closed inside a BlockQuote that already kept one.
C3_Witness ==
    /\ ClosedKind(BlockKinds)
    /\ stack # <<>>
    /\ Last(stack).kind.k = "BlockQuote"
    /\ Len(Last(stack).block_content) = 2
    /\ elements = <<>>

\* C4: a closed list-item frame is never emitted as an element: when the new
\* top of the stack is a List frame, one ListItem with the item's inline
\* content is appended at the end of that frame's items; otherwise the item is
\* dropped, and neither the output nor any remaining frame changes.
C4_ListItemRouting ==
    ClosedKind({"ListItem"}) =>
        /\ elements = preElements
        /\ Len(stack) = Len(preStack) - 1
        /\ IF Rest # <<>> /\ Last(Rest).kind.k = "List"
           THEN /\ Len(Last(stack).list_items) = Len(Last(Rest).list_items) + 1
                /\ Last(Last(stack).list_items).content = Popped.inline_content
                /\ OnlyTopBecame(
                       [Last(Rest) EXCEPT !.list_items =
                           Append(@, Last(Last(stack).list_items))])
           ELSE stack = Rest

\* C4 witness: an item with content was closed into a List frame.
C4_Witness ==
    /\ ClosedKind({"ListItem"})
    /\ Popped.inline_content # <<>>
    /\ stack # <<>>
    /\ Last(stack).kind.k = "List"
    /\ Last(stack).list_items # <<>>

\* C5: closing an Emphasis, Strikethrough, Link or Image frame appends one
\* InlineElement of that variant at the end of the new top frame's inline
\* buffer and changes nothing else; the output and the block children of every
\* frame are unchanged, and with no frame left the element is discarded.
C5_InlineRouting ==
    ClosedKind(InlineKinds) =>
        /\ elements = preElements
        /\ Len(stack) = Len(preStack) - 1
        /\ \A i \in 1..Len(stack) :
              stack[i].block_content = preStack[i].block_content
        /\ IF Rest # <<>>
           THEN LET x == Last(Last(stack).inline_content)
                IN  /\ x.t = Popped.kind.k
                    /\ x.t \in {"Emphasis", "Strikethrough"} =>
                          x.content = Popped.inline_content
                    /\ OnlyTopBecame(
                           [Last(Rest) EXCEPT
                               !.inline_content = Append(@, x)])
           ELSE stack = <<>>

\* C5 witness: an inline frame with content was closed into a frame that
\* already held inline content.
C5_Witness ==
    /\ ClosedKind(InlineKinds)
    /\ Popped.inline_content # <<>>
    /\ stack # <<>>
    /\ Len(Last(stack).inline_content) >= 2

\* The last End popped a frame of kind `k` from on top of a frame of kind `pk`.
ClosedInto(k, pk) ==
    /\ ClosedKind({k})
    /\ Rest # <<>>
    /\ Last(Rest).kind.k = pk

\* C6: a table's events build a Table element: a closed TableCell adds its
\* inline content to the current row of the TableHead or TableRow frame below
\* it, a closed TableHead hands its cells to the Table frame's headers and a
\* closed TableRow appends its cells to the Table frame's rows, and closing
\* the Table frame emits Table{headers, rows} from those accumulators.
C6_TableBuilt ==
    /\ \A pk \in {"TableHead", "TableRow"} :
          ClosedInto("TableCell", pk) =>
              OnlyTopBecame(
                  [Last(Rest) EXCEPT !.table_data.current_row =
                      Append(@, Popped.inline_content)])
    /\ ClosedInto("TableHead", "Table") =>
          OnlyTopBecame(
              [Last(Rest) EXCEPT !.table_data.headers =
                  Popped.table_data.current_row])
    /\ ClosedInto("TableRow", "Table") =>
          OnlyTopBecame(
              [Last(Rest) EXCEPT !.table_data.rows =
                  Append(@, Popped.table_data.current_row)])
    /\ (ClosedKind({"Table"}) /\ Rest = <<>>) =>
          elements = Append(preElements,
                            [t |-> "Table",
                             headers |-> Popped.table_data.headers,
                             rows |-> Popped.table_data.rows])

RECURSIVE NoAtomicIn(_)
\* No HorizontalRule or Html element anywhere inside `elems`.
NoAtomicIn(elems) ==
    \A i \in 1..Len(elems) :
        /\ elems[i].t \notin {"HorizontalRule", "Html"}
        /\ elems[i].t = "BlockQuote" => NoAtomicIn(elems[i].content)

\* C7: a Rule event and an Html event each append exactly one element
\* (HorizontalRule, or Html with the event's content) to the top-level output
\* at any stack depth and leave the stack and every frame's buffers as they
\* were; no such element is ever inside another element.
C7_AtomicBlocksTopLevel ==
    /\ Was("Rule") =>
          /\ elements = Append(preElements, [t |-> "HorizontalRule"])
          /\ stack = preStack
    /\ Was("Html") =>
          /\ elements = Append(preElements,
                               [t |-> "Html", content |-> ev[1].s])
          /\ stack = preStack
    /\ \A i \in 1..Len(elements) :
          elements[i].t = "BlockQuote" => NoAtomicIn(elements[i].content)
    /\ \A i \in 1..Len(stack) : NoAtomicIn(stack[i].block_content)

\* C7 witness: a Rule was handled while two frames were open, the top one a
\* BlockQuote.
C7_Witness ==
    /\ Was("Rule")
    /\ Len(stack) = 2
    /\ Last(stack).kind.k = "BlockQuote"
    /\ Len(elements) >= 2

\* C8: a closed Link or Image frame yields an element whose text (alt) is
\* render_inline_elements_text of the frame's inline content at that moment
\* and whose url and title are those of the frame's Start event (an empty
\* title being None); once in a buffer, an inline element is never changed.
C8_LinkTextOnce ==
    /\ (ClosedKind({"Link", "Image"}) /\ Rest # <<>>) =>
          LET x == Last(Last(stack).inline_content)
              flat == render_inline_elements_text(Popped.inline_content)
          IN  /\ x.url = Popped.kind.url
              /\ x.title = Popped.kind.title
              /\ x.t = "Link" => x.text = flat
              /\ x.t = "Image" => x.alt = flat
    /\ (Was("Start") /\ ev[1].tag.tag \in {"Link", "Image"}) =>
          /\ Last(stack).kind.url = ev[1].tag.dest_url
          /\ Last(stack).kind.title =
                IF ev[1].tag.title = <<>> THEN None ELSE Some(ev[1].tag.title)
    /\ ev # None =>
          \A i \in 1..Len(stack) :
              i <= Len(preStack) =>
                  /\ stack[i].kind = preStack[i].kind
                  /\ IsPrefix(preStack[i].inline_content,
                              stack[i].inline_content)

\* C8 witness: a Link was closed whose content held a Code span and a break,
\* so that its text is the flattening "c ".
C8_Witness ==
    /\ ClosedKind({"Link"})
    /\ stack # <<>>
    /\ Len(Popped.inline_content) = 2
    /\ Last(Last(stack).inline_content).text = <<"c", " ">>

RECURSIVE NoEmptyParagraphIn(_)
\* No Paragraph with an empty inline sequence anywhere in `elems`.
NoEmptyParagraphIn(elems) ==
    \A i \in 1..Len(elems) :
        /\ elems[i].t = "Paragraph" => elems[i].content # <<>>
        /\ elems[i].t = "BlockQuote" => NoEmptyParagraphIn(elems[i].content)

\* C9: no Paragraph with an empty inline sequence is ever emitted, at top
\* level or inside a BlockQuote: a Paragraph frame closed with no inline
\* content adds nothing anywhere, and one closed with content yields exactly
\* one Paragraph carrying that content in order.
C9_NoEmptyParagraph ==
    /\ NoEmptyParagraphIn(elements)
    /\ \A i \in 1..Len(stack) : NoEmptyParagraphIn(stack[i].block_content)
    /\ ClosedKind({"Paragraph"}) =>
          LET para == [t |-> "Paragraph", content |-> Popped.inline_content]
          IN  IF Popped.inline_content = <<>>
              THEN elements = preElements /\ stack = Rest
              ELSE /\ Rest = <<>> => elements = Append(preElements, para)
                   /\ ClosedInto("Paragraph", "BlockQuote") =>
                         OnlyTopBecame(
                             [Last(Rest) EXCEPT
                                 !.block_content = Append(@, para)])

\* C9 witness: an empty Paragraph frame was closed inside a BlockQuote that
\* already holds a block child.
C9_Witness ==
    /\ ClosedInto("Paragraph", "BlockQuote")
    /\ Popped.inline_content = <<>>
    /\ Last(stack).block_content # <<>>

\* The text of `inl`'s Text fragments, in order.
TextFragments(inl) ==
    LET texts == SelectSeq(inl, LAMBDA e : e.t = "Text")
        cat[i \in 0..Len(texts)] ==
            IF i = 0 THEN <<>> ELSE cat[i - 1] \o texts[i].s
    IN  cat[Len(texts)]

\* C10: a closed CodeBlock frame always finalizes to a CodeBlock whose content
\* is the in-order concatenation of the Text fragments of its inline buffer,
\* every other inline element contributing nothing; its language is None for
\* an indented block and for a fence with an empty tag, else the fence's tag.
C10_CodeBlockContent ==
    /\ ClosedKind({"CodeBlock"}) =>
          LET code == [t |-> "CodeBlock",
                       language |-> Popped.kind.language,
                       content |-> TextFragments(Popped.inline_content)]
          IN  /\ build(Popped) = Some(code)
              /\ Rest = <<>> => elements = Append(preElements, code)
              /\ ClosedInto("CodeBlock", "BlockQuote") =>
                    OnlyTopBecame(
                        [Last(Rest) EXCEPT !.block_content = Append(@, code)])
    /\ (Was("Start") /\ ev[1].tag.tag = "CodeBlock") =>
          Last(stack).kind.language =
              IF ev[1].tag.fenced /\ ev[1].tag.lang # <<>>
              THEN Some(ev[1].tag.lang) ELSE None

\* C10 witness: a fenced block tagged "rs" was closed whose buffer held a Text
\* fragment, a Code span and another Text fragment.
C10_Witness ==
    /\ ClosedKind({"CodeBlock"})
    /\ Popped.kind.language = Some(<<"r", "s">>)
    /\ Len(Popped.inline_content) = 3
    /\ Popped.inline_content[2].t = "Code"
    /\ elements = <<[t |-> "CodeBlock", language |-> Some(<<"r", "s">>),
                     content |-> <<"a", "b">>]>>

\* ---------------------------------------------------------- the HTML renderer

\* The pages and headings explored hold at most this many elements.
MaxDoc == 2

\* html_escape::encode_quoted_attribute, one character.
EncodeAttrChar(c) ==
    CASE c = "&" -> <<"&", "a", "m", "p", ";">>
      [] c = "<" -> <<"&", "l", "t", ";">>
      [] c = ">" -> <<"&", "g", "t", ";">>
      [] c = "\"" -> <<"&", "q", "u", "o", "t", ";">>
      [] c = "'" -> <<"&", "#", "x", "2", "7", ";">>
      [] OTHER -> <<c>>

RECURSIVE encode_quoted_attribute(_)
\* html_escape::encode_quoted_attribute.
encode_quoted_attribute(s) ==
    IF s = <<>> THEN <<>>
    ELSE EncodeAttrChar(Head(s)) \o encode_quoted_attribute(Tail(s))

\* The title attribute of a link or an image.
TitleAttr(title) ==
    IF title # None
    THEN <<" ", "t", "i", "t", "l", "e", "=", "\"">> \o encode_quoted_attribute(title[1]) \o <<"\"">>
    ELSE <<>>

\* The Code arm writing the code as it is.
RenderInlineCode_Raw(code) ==
    <<"<", "c", "o", "d", "e", ">">> \o code \o <<"<", "/", "c", "o", "d", "e", ">">>

\* render_inline_elements, the Code arm.
RenderInlineCode(code) ==
    <<"<", "c", "o", "d", "e", ">">> \o encode_text(code) \o <<"<", "/", "c", "o", "d", "e", ">">>

RECURSIVE render_inline_elements(_)
\* render_inline_elements: the HTML of an inline sequence.
render_inline_elements(elems) ==
    IF elems = <<>> THEN <<>>
    ELSE LET element == Head(elems)
             piece ==
                 CASE element.t = "Text" -> encode_text(element.s)
                   [] element.t = "Link" ->
                        <<"<", "a", " ", "h", "r", "e", "f", "=", "\"">>
                        \o encode_quoted_attribute(element.url) \o <<"\"">>
                        \o TitleAttr(element.title) \o <<">">>
                        \o encode_text(element.text) \o <<"<", "/", "a", ">">>
                   [] element.t = "Image" ->
                        <<"<", "i", "m", "g", " ", "s", "r", "c", "=", "\"">>
                        \o encode_quoted_attribute(element.url)
                        \o <<"\"", " ", "a", "l", "t", "=", "\"">>
                        \o encode_quoted_attribute(element.alt) \o <<"\"">>
                        \o TitleAttr(element.title) \o <<"/", ">">>
                   [] element.t = "Emphasis" ->
                        CASE element.level = 1 ->
                               <<"<", "e", "m", ">">>
                               \o render_inline_elements(element.content)
                               \o <<"<", "/", "e", "m", ">">>
                          [] element.level = 2 ->
                               <<"<", "s", "t", "r", "o", "n", "g", ">">>
                               \o render_inline_elements(element.content)
                               \o <<"<", "/", "s", "t", "r", "o", "n", "g", ">">>
                          [] OTHER -> render_inline_elements(element.content)
                   [] element.t = "Code" -> RenderInlineCode(element.s)
                   [] element.t = "SoftBreak" -> <<" ">>
                   [] element.t = "HardBreak" -> <<"<", "b", "r", " ", "/", ">">>
                   [] element.t = "Strikethrough" ->
                        <<"<", "d", "e", "l", ">">> \o render_inline_elements(element.content)
                        \o <<"<", "/", "d", "e", "l", ">">>
         IN  piece \o render_inline_elements(Tail(elems))

RECURSIVE render_list_item_CheckedNests(_)
\* render_list_item with a checked item rendering its sub_items as well.
render_list_item_CheckedNests(item) ==
    LET subs[i \in 0..Len(item.sub_items)] ==
            IF i = 0 THEN <<>>
            ELSE subs[i - 1] \o render_list_item_CheckedNests(item.sub_items[i])
        nested == IF item.sub_items # <<>>
                  THEN <<"\n", "<", "u", "l", ">", "\n">> \o subs[Len(item.sub_items)] \o <<"<", "/", "u", "l", ">", "\n">>
                  ELSE <<>>
        box == IF item.checked = None THEN <<>>
               ELSE IF item.checked[1]
               THEN <<"<", "i", "n", "p", "u", "t", " ", "t", "y", "p", "e", "=", "\"", "c", "h", "e", "c", "k", "b", "o", "x", "\"", " ", "c", "h", "e", "c", "k", "e", "d", " ", "d", "i", "s", "a", "b", "l", "e", "d", "/", ">", " ">>
               ELSE <<"<", "i", "n", "p", "u", "t", " ", "t", "y", "p", "e", "=", "\"", "c", "h", "e", "c", "k", "b", "o", "x", "\"", " ", "d", "i", "s", "a", "b", "l", "e", "d", "/", ">", " ">>
    IN  <<"<", "l", "i", ">">> \o box \o render_inline_elements(item.content)
        \o nested \o <<"<", "/", "l", "i", ">", "\n">>

RECURSIVE render_list_item(_)
\* render_list_item: a checkbox item, or an item with its nested list.
render_list_item(item) ==
    IF item.checked # None
    THEN LET checkbox ==
                 IF item.checked[1]
                 THEN <<"<", "i", "n", "p", "u", "t", " ", "t", "y", "p", "e", "=", "\"", "c", "h", "e", "c", "k", "b", "o", "x", "\"", " ", "c", "h", "e", "c", "k", "e", "d", " ", "d", "i", "s", "a", "b", "l", "e", "d", "/", ">", " ">>
                 ELSE <<"<", "i", "n", "p", "u", "t", " ", "t", "y", "p", "e", "=", "\"", "c", "h", "e", "c", "k", "b", "o", "x", "\"", " ", "d", "i", "s", "a", "b", "l", "e", "d", "/", ">", " ">>
         IN  <<"<", "l", "i", ">">> \o checkbox \o render_inline_elements(item.content)
             \o <<"<", "/", "l", "i", ">", "\n">>
    ELSE LET subs[i \in 0..Len(item.sub_items)] ==
                 IF i = 0 THEN <<>>
                 ELSE subs[i - 1] \o render_list_item(item.sub_items[i])
         IN  <<"<", "l", "i", ">">> \o render_inline_elements(item.content)
             \o (IF item.sub_items # <<>>
                 THEN <<"\n", "<", "u", "l", ">", "\n">> \o subs[Len(item.sub_items)] \o <<"<", "/", "u", "l", ">", "\n">>
                 ELSE <<>>)
             \o <<"<", "/", "l", "i", ">", "\n">>

\* render_table with every row cut or filled with empty cells to the width
\* of the header.
render_table_Padded(headers, rows) ==
    LET ths[i \in 0..Len(headers)] ==
            IF i = 0 THEN <<>>
            ELSE ths[i - 1] \o <<"<", "t", "h", ">">> \o render_inline_elements(headers[i])
                 \o <<"<", "/", "t", "h", ">", "\n">>
        tds(row) ==
            LET acc[i \in 0..Len(headers)] ==
                    IF i = 0 THEN <<>>
                    ELSE acc[i - 1] \o <<"<", "t", "d", ">">>
                         \o (IF i <= Len(row) THEN render_inline_elements(row[i]) ELSE <<>>)
                         \o <<"<", "/", "t", "d", ">", "\n">>
            IN  acc[Len(headers)]
        trs[i \in 0..Len(rows)] ==
            IF i = 0 THEN <<>>
            ELSE trs[i - 1] \o <<"<", "t", "r", ">", "\n">> \o tds(rows[i]) \o <<"<", "/", "t", "r", ">", "\n">>
    IN  <<"<", "t", "a", "b", "l", "e", ">", "\n">>
        \o (IF headers # <<>>
            THEN <<"<", "t", "h", "e", "a", "d", ">", "\n", "<", "t", "r", ">", "\n">> \o ths[Len(headers)] \o <<"<", "/", "t", "r", ">", "\n", "<", "/", "t", "h", "e", "a", "d", ">", "\n">>
            ELSE <<>>)
        \o (IF rows # <<>>
            THEN <<"<", "t", "b", "o", "d", "y", ">", "\n">> \o trs[Len(rows)] \o <<"<", "/", "t", "b", "o", "d", "y", ">", "\n">>
            ELSE <<>>)
        \o <<"<", "/", "t", "a", "b", "l", "e", ">", "\n">>

\* render_table: the head if there are headers, the body if there are rows.
render_table(headers, rows) ==
    LET ths[i \in 0..Len(headers)] ==
            IF i = 0 THEN <<>>
            ELSE ths[i - 1] \o <<"<", "t", "h", ">">> \o render_inline_elements(headers[i])
                 \o <<"<", "/", "t", "h", ">", "\n">>
        tds(row) ==
            LET acc[i \in 0..Len(row)] ==
                    IF i = 0 THEN <<>>
                    ELSE acc[i - 1] \o <<"<", "t", "d", ">">>
                         \o render_inline_elements(row[i]) \o <<"<", "/", "t", "d", ">", "\n">>
            IN  acc[Len(row)]
        trs[i \in 0..Len(rows)] ==
            IF i = 0 THEN <<>>
            ELSE trs[i - 1] \o <<"<", "t", "r", ">", "\n">> \o tds(rows[i]) \o <<"<", "/", "t", "r", ">", "\n">>
    IN  <<"<", "t", "a", "b", "l", "e", ">", "\n">>
        \o (IF headers # <<>>
            THEN <<"<", "t", "h", "e", "a", "d", ">", "\n", "<", "t", "r", ">", "\n">> \o ths[Len(headers)]
                 \o <<"<", "/", "t", "r", ">", "\n", "<", "/", "t", "h", "e", "a", "d", ">", "\n">>
            ELSE <<>>)
        \o (IF rows # <<>>
            THEN <<"<", "t", "b", "o", "d", "y", ">", "\n">> \o trs[Len(rows)] \o <<"<", "/", "t", "b", "o", "d", "y", ">", "\n">>
            ELSE <<>>)
        \o <<"<", "/", "t", "a", "b", "l", "e", ">", "\n">>

\* The escaped block written with the content as it is.
EscapedPre_Raw(content) ==
    <<"<", "p", "r", "e", ">", "<", "c", "o", "d", "e", ">">> \o content \o <<"<", "/", "c", "o", "d", "e", ">", "<", "/", "p", "r", "e", ">", "\n">>

\* format!("<pre><code>{}</code></pre>\n", encode_text(content)).
EscapedPre(content) ==
    <<"<", "p", "r", "e", ">", "<", "c", "o", "d", "e", ">">> \o encode_text(content) \o <<"<", "/", "c", "o", "d", "e", ">", "<", "/", "p", "r", "e", ">", "\n">>

\* The syntaxes the renderer's aliases name.
JavaScript == <<"J", "a", "v", "a", "S", "c", "r", "i", "p", "t">>

YAML == <<"Y", "A", "M", "L">>

\* The lookup with the alias table consulted before the fence tag itself.
FindSyntax_AliasFirst(lang) ==
    CASE lang = <<"n", "i", "x">> /\ JavaScript \in syntaxSet.names -> Some(JavaScript)
      [] lang = <<"t", "o", "m", "l">> /\ YAML \in syntaxSet.names -> Some(YAML)
      [] lang \in syntaxSet.tokens -> Some(lang)
      [] OTHER -> None

\* find_syntax_by_token(lang).or_else(the aliases nix and toml): the syntax
\* found, named by the tag or the name it was found under.
FindSyntax(lang) ==
    IF lang \in syntaxSet.tokens
    THEN Some(lang)
    ELSE CASE lang = <<"n", "i", "x">> ->
                IF JavaScript \in syntaxSet.names THEN Some(JavaScript) ELSE None
           [] lang = <<"t", "o", "m", "l">> ->
                IF YAML \in syntaxSet.names THEN Some(YAML) ELSE None
           [] OTHER -> None

\* syntect's highlighted_html_for_string: Err, or Ok(markup of its own for
\* the content under the syntax).
highlighted_html_for_string(content, syntax) ==
    IF syntaxSet.fails
    THEN [ok |-> FALSE, html |-> <<>>]
    ELSE [ok |-> TRUE,
          html |-> <<"<", "p", "r", "e", " ", "s", "t", "y", "l", "e", "=", "\"">> \o syntax \o <<"\"", ">", "\n">>
                   \o encode_text(content) \o <<"<", "/", "p", "r", "e", ">", "\n">>]

\* render_element, the CodeBlock arm.
RenderCodeBlock(language, content) ==
    IF language # None
    THEN LET syntax == FindSyntax(language[1])
         IN  IF syntax # None
             THEN LET res == highlighted_html_for_string(content, syntax[1])
                  IN  IF res.ok THEN res.html ELSE EscapedPre(content)
             ELSE EscapedPre(content)
    ELSE EscapedPre(content)

\* The List arm writing every list as an unordered one.
RenderList_AlwaysUl(items, ordered) ==
    LET lis[i \in 0..Len(items)] ==
            IF i = 0 THEN <<>> ELSE lis[i - 1] \o render_list_item(items[i])
    IN  <<"<", "u", "l", ">", "\n">> \o lis[Len(items)] \o <<"<", "/", "u", "l", ">", "\n">>

\* render_element, the List arm.
RenderList(items, ordered) ==
    LET tag == IF ordered THEN <<"o", "l">> ELSE <<"u", "l">>
        lis[i \in 0..Len(items)] ==
            IF i = 0 THEN <<>> ELSE lis[i - 1] \o render_list_item(items[i])
    IN  <<"<">> \o tag \o <<">", "\n">> \o lis[Len(items)]
        \o <<"<", "/">> \o tag \o <<">", "\n">>

\* The decimal digits, for a heading's level.
Digits == <<"1", "2", "3", "4", "5", "6", "7", "8", "9">>

RECURSIVE render_elements_to_html(_)

RECURSIVE render_element(_)

\* The BlockQuote arm rendering only the first element of the quote.
RenderBlockQuote_FirstOnly(content) ==
    <<"<", "b", "l", "o", "c", "k", "q", "u", "o", "t", "e", ">", "\n">>
    \o (IF content = <<>> THEN <<>> ELSE render_element(content[1]))
    \o <<"<", "/", "b", "l", "o", "c", "k", "q", "u", "o", "t", "e", ">", "\n">>

\* render_element, the BlockQuote arm.
RenderBlockQuote(content) ==
    LET inner == render_elements_to_html(content)
    IN  <<"<", "b", "l", "o", "c", "k", "q", "u", "o", "t", "e", ">", "\n">> \o inner \o <<"<", "/", "b", "l", "o", "c", "k", "q", "u", "o", "t", "e", ">", "\n">>

\* render_element: the HTML of one PageElement.
render_element(element) ==
    CASE element.t = "Heading" ->
           <<"<", "h">> \o <<Digits[element.level]>> \o <<">">>
           \o render_inline_elements(element.content)
           \o <<"<", "/", "h">> \o <<Digits[element.level]>> \o <<">", "\n">>
      [] element.t = "Paragraph" ->
           <<"<", "p", ">">> \o render_inline_elements(element.content) \o <<"<", "/", "p", ">", "\n">>
      [] element.t = "CodeBlock" ->
           RenderCodeBlock(element.language, element.content)
      [] element.t = "List" -> RenderList(element.items, element.ordered)
      [] element.t = "BlockQuote" -> RenderBlockQuote(element.content)
      [] element.t = "Table" -> render_table(element.headers, element.rows)
      [] element.t = "HorizontalRule" -> <<"<", "h", "r", " ", "/", ">", "\n">>
      [] element.t = "Html" -> element.content \o <<"\n">>

\* render_elements_to_html writing the elements last to first.
RECURSIVE render_elements_to_html_Reversed(_)
render_elements_to_html_Reversed(elems) ==
    IF elems = <<>> THEN <<>>
    ELSE render_elements_to_html_Reversed(Tail(elems))
         \o render_element(Head(elems))

\* render_elements_to_html: every element's HTML, pushed in order.
render_elements_to_html(elems) ==
    IF elems = <<>> THEN <<>>
    ELSE render_element(Head(elems)) \o render_elements_to_html(Tail(elems))

\* ------------------------------------------------------ rendering one page

Text(s) == [t |-> "Text", s |-> s]

Item(content, sub_items, checked) ==
    [content |-> content, sub_items |-> sub_items, checked |-> checked]

\* The PageElements the rendered pages are made of.
ElementPool ==
    { [t |-> "Heading", level |-> 1, content |-> <<Text(<<"a", "<">>)>>],
      [t |-> "Paragraph",
       content |-> <<Text(<<"x", "&", "\"">>), [t |-> "Code", s |-> <<">">>],
                     [t |-> "SoftBreak"], [t |-> "HardBreak"]>>],
      [t |-> "Paragraph",
       content |-> <<[t |-> "Link", text |-> <<"<", "b">>, url |-> <<"u", "\"", "&">>,
                      title |-> Some(<<"t", "'", "\"">>)],
                     [t |-> "Image", alt |-> <<"\"", "<">>, url |-> <<"v", ">">>,
                      title |-> None],
                     [t |-> "Emphasis", level |-> 1, content |-> <<Text(<<"e">>)>>],
                     [t |-> "Emphasis", level |-> 2, content |-> <<Text(<<"<">>)>>],
                     [t |-> "Emphasis", level |-> 3, content |-> <<Text(<<"&">>)>>],
                     [t |-> "Strikethrough", content |-> <<Text(<<">">>)>>]>>],
      [t |-> "CodeBlock", language |-> None, content |-> <<"<", "&", ">", "\n">>],
      [t |-> "CodeBlock", language |-> Some(<<"r", "s">>), content |-> <<"a", "<">>],
      [t |-> "CodeBlock", language |-> Some(<<"n", "i", "x">>), content |-> <<"b", "&">>],
      [t |-> "CodeBlock", language |-> Some(<<"z", "z">>), content |-> <<">", "c">>],
      [t |-> "List", ordered |-> TRUE,
       items |-> <<Item(<<Text(<<"a">>)>>, <<>>, None),
                   Item(<<Text(<<"b">>)>>, <<>>, None),
                   Item(<<Text(<<"c">>)>>, <<>>, None)>>],
      [t |-> "List", ordered |-> FALSE,
       items |-> <<Item(<<Text(<<"d">>)>>,
                        <<Item(<<Text(<<"s">>)>>, <<>>, None)>>, Some(TRUE)),
                   Item(<<Text(<<"<">>)>>,
                        <<Item(<<Text(<<"n">>)>>, <<>>, Some(FALSE)),
                          Item(<<>>, <<Item(<<Text(<<"m">>)>>, <<>>, None)>>,
                               None)>>,
                        None)>>],
      [t |-> "BlockQuote",
       content |-> <<[t |-> "Heading", level |-> 1,
                      content |-> <<Text(<<"h">>)>>],
                     [t |-> "Paragraph", content |-> <<Text(<<"p">>)>>]>>],
      [t |-> "BlockQuote",
       content |-> <<[t |-> "BlockQuote",
                      content |-> <<[t |-> "Paragraph",
                                     content |-> <<Text(<<"q", "&">>)>>],
                                    [t |-> "HorizontalRule"]>>],
                     [t |-> "Heading", level |-> 2,
                      content |-> <<Text(<<"k">>)>>]>>],
      [t |-> "Table",
       headers |-> <<<<Text(<<"A">>)>>, <<Text(<<"B">>)>>>>,
       rows |-> << << <<Text(<<"1">>)>> >>,
                   << <<Text(<<"<">>)>>, <<Text(<<"2">>)>>, <<>> >> >>],
      [t |-> "Table",
       headers |-> <<>>,
       rows |-> << << <<Text(<<"x">>)>> >> >>],
      [t |-> "Table", headers |-> << <<Text(<<"H">>)>> >>, rows |-> <<>>],
      [t |-> "HorizontalRule"],
      [t |-> "Html", content |-> <<"<", "i", ">", "&">>] }

\* The states SYNTAX_SET and the highlighter can be in: syntect's defaults,
\* highlighting that fails, no grammar under the aliases' names, and a
\* syntax set that knows the tag nix itself.
SyntaxSets ==
    { DefaultSyntaxSet,
      [DefaultSyntaxSet EXCEPT !.fails = TRUE],
      [DefaultSyntaxSet EXCEPT !.names = {}],
      [DefaultSyntaxSet EXCEPT !.tokens = {<<"r", "s">>, <<"n", "i", "x">>}] }

\* The sequences over S of at most k elements.
SeqsUpTo(S, k) == UNION { [1..m -> S] : m \in 0..k }

\* No page is being parsed.
BuilderIdle ==
    /\ phase = "returned"
    /\ pageKind = "quote"
    /\ elements = <<>>
    /\ stack = <<>>
    /\ ev = None
    /\ n = 0
    /\ preStack = <<>>
    /\ preElements = <<>>
    /\ startedAt = <<>>
    /\ emittedAt = <<>>
    /\ depth = 0

RenderInit ==
    /\ BuilderIdle
    /\ NavIdle
    /\ SiteIdle
    /\ ServeIdle
    /\ ConfigIdle
    /\ ScanIdle
    /\ RendererIdle
    /\ ReloadIdle
    /\ SocketIdle
    /\ InjectIdle
    /\ syntaxSet \in SyntaxSets
    /\ doc \in SeqsUpTo(ElementPool, MaxDoc)
    /\ page_content = None

\* Site::render_page: the page's elements are rendered to page_content.
RenderPage ==
    /\ page_content = None
    /\ page_content' = Some(render_elements_to_html(doc))
    /\ UNCHANGED <<builderVars, navVars, siteVars, serveVars, configVars, syntaxSet, doc, scanVars, rendererVars, reloadVars, socketVars, injectVars>>

RenderNext == RenderPage

SpecRender == RenderInit /\ [][RenderNext]_vars

\* ---------------------------------------------------- claims on the renderer

\* The page was rendered, and what render_elements_to_html returned.
Rendered == page_content # None

Out == page_content[1]

\* F of every element of s, concatenated in order.
Pieces(F(_), s) ==
    LET acc[i \in 0..Len(s)] == IF i = 0 THEN <<>> ELSE acc[i - 1] \o F(s[i])
    IN  acc[Len(s)]

\* s without its line feeds.
Unspaced(s) == SelectSeq(s, LAMBDA c : c # "\n")

\* C14: render_elements_to_html of a sequence is the concatenation, in order,
\* of render_element of each element: the empty sequence renders as the
\* empty string and render(xs ++ ys) = render(xs) ++ render(ys).
C14_RenderIsConcatenation ==
    Rendered =>
        /\ Out = Pieces(render_element, doc)
        /\ doc = <<>> => Out = <<>>
        /\ \A k \in 0..Len(doc) :
              Out = render_elements_to_html(SubSeq(doc, 1, k))
                    \o render_elements_to_html(SubSeq(doc, k + 1, Len(doc)))

\* C14 witness: a page of two elements with different renderings was rendered.
C14_Witness ==
    /\ Rendered
    /\ Len(doc) = 2
    /\ render_element(doc[1]) # render_element(doc[2])
    /\ render_element(doc[2]) # <<>>

\* The unhighlighted form of a code block.
PlainPre(content) ==
    <<"<", "p", "r", "e", ">", "<", "c", "o", "d", "e", ">">> \o encode_text(content) \o <<"<", "/", "c", "o", "d", "e", ">", "<", "/", "p", "r", "e", ">">> \o <<"\n">>

\* C16: a CodeBlock with no language tag renders as
\* <pre><code>ESCAPED</code></pre> and the line feed that ends every block,
\* ESCAPED being the HTML-escaped content, whatever the content and whatever
\* the state of the highlighter, which is not consulted.
C16_UntaggedCodeIsEscapedPre ==
    Rendered =>
        LET claimed(e) ==
                IF e.t = "CodeBlock" /\ e.language = None
                THEN PlainPre(e.content)
                ELSE render_element(e)
        IN  Out = Pieces(claimed, doc)

\* C16 witness: an untagged block holding <, & and > was rendered while the
\* highlighter was failing.
C16_Witness ==
    /\ Rendered
    /\ syntaxSet.fails
    /\ \E i \in 1..Len(doc) :
          /\ doc[i].t = "CodeBlock"
          /\ doc[i].language = None
          /\ \A c \in {"<", "&", ">"} :
                \E j \in 1..Len(doc[i].content) : doc[i].content[j] = c

\* C17: rendering a CodeBlock with a language tag never fails: when neither
\* the highlighter nor, after it, the alias table (nix -> JavaScript,
\* toml -> YAML) gives a grammar for the tag, or when highlighting returns an
\* error, the output is the unhighlighted escaped form; a tag the highlighter
\* knows is highlighted under that tag's own grammar, not under an alias.
C17_HighlightingIsBestEffort ==
    /\ Rendered =>
          LET direct(l) == l \in syntaxSet.tokens
              alias(l) == \/ l = <<"n", "i", "x">> /\ JavaScript \in syntaxSet.names
                          \/ l = <<"t", "o", "m", "l">> /\ YAML \in syntaxSet.names
              claimed(e) ==
                  IF e.t = "CodeBlock" /\ e.language # None
                  THEN LET l == e.language[1]
                       IN  IF syntaxSet.fails \/ ~(direct(l) \/ alias(l))
                           THEN PlainPre(e.content)
                           ELSE IF direct(l)
                           THEN highlighted_html_for_string(e.content, l).html
                           ELSE render_element(e)
                  ELSE render_element(e)
          IN  Out = Pieces(claimed, doc)
    /\ ENABLED RenderPage \/ Rendered

\* C17 witness: with no grammar under the aliases' names, a block tagged nix
\* and a block with an unknown tag were rendered.
C17_Witness ==
    /\ Rendered
    /\ syntaxSet.names = {}
    /\ \E i \in 1..Len(doc) : \E j \in 1..Len(doc) :
          /\ doc[i].t = "CodeBlock" /\ doc[i].language = Some(<<"n", "i", "x">>)
          /\ doc[j].t = "CodeBlock" /\ doc[j].language = Some(<<"z", "z">>)

\* An item with neither a checkbox nor sub-items.
PlainItem(item) == item.checked = None /\ item.sub_items = <<>>

\* C18: a List renders as <ol> when ordered and <ul> otherwise, holding
\* render_list_item of every item in item order, which for an item with no
\* checkbox and no sub-items is one <li> around its rendered inline content;
\* ordered items a, b, c render as <ol><li>a</li><li>b</li><li>c</li></ol>
\* up to line feeds.
C18_ListRendering ==
    Rendered =>
        LET li(item) ==
                IF PlainItem(item)
                THEN <<"<", "l", "i", ">">> \o render_inline_elements(item.content)
                     \o <<"<", "/", "l", "i", ">", "\n">>
                ELSE render_list_item(item)
            claimed(e) ==
                IF e.t = "List"
                THEN (IF e.ordered THEN <<"<", "o", "l", ">", "\n">> ELSE <<"<", "u", "l", ">", "\n">>)
                     \o Pieces(li, e.items)
                     \o (IF e.ordered THEN <<"<", "/", "o", "l", ">", "\n">> ELSE <<"<", "/", "u", "l", ">", "\n">>)
                ELSE render_element(e)
        IN  /\ Out = Pieces(claimed, doc)
            /\ \A i \in 1..Len(doc) :
                  ( /\ doc[i].t = "List"
                    /\ doc[i].ordered
                    /\ Len(doc[i].items) = 3
                    /\ \A j \in 1..3 :
                          /\ PlainItem(doc[i].items[j])
                          /\ doc[i].items[j].content = <<Text(<<<<"a", "b", "c">>[j]>>)>> )
                  => Unspaced(claimed(doc[i])) = <<"<", "o", "l", ">", "<", "l", "i", ">", "a", "<", "/", "l", "i", ">", "<", "l", "i", ">", "b", "<", "/", "l", "i", ">", "<", "l", "i", ">", "c", "<", "/", "l", "i", ">", "<", "/", "o", "l", ">">>

\* C18 witness: the ordered list of a, b and c was rendered after an
\* unordered list.
C18_Witness ==
    /\ Rendered
    /\ Len(doc) = 2
    /\ doc[1].t = "List" /\ ~doc[1].ordered
    /\ doc[2].t = "List" /\ doc[2].ordered /\ Len(doc[2].items) = 3

\* The items of the page's lists, at every depth.
RECURSIVE ItemsUnder(_)
ItemsUnder(items) ==
    IF items = <<>>
    THEN {}
    ELSE {items[1]} \cup ItemsUnder(items[1].sub_items) \cup ItemsUnder(Tail(items))

ItemsOfPage ==
    UNION { ItemsUnder(doc[i].items) : i \in {j \in 1..Len(doc) : doc[j].t = "List"} }

\* s occurs in t as a run of consecutive characters.
Occurs(s, t) ==
    \E i \in 0..(Len(t) - Len(s)) : SubSeq(t, i + 1, i + Len(s)) = s

\* C19: an item whose checked flag is set renders as one <li> holding a
\* disabled checkbox, carrying the checked attribute exactly when the flag is
\* true, and then its inline content, with none of its sub-items; an item
\* with no flag renders as one <li> holding its inline content and then,
\* exactly when it has sub-items, a nested <ul> of the sub-items rendered the
\* same way.
C19_ListItemRendering ==
    Rendered =>
        \A item \in ItemsOfPage :
            LET html == render_list_item(item)
                inline == render_inline_elements(item.content)
            IN  IF item.checked # None
                THEN /\ html = <<"<", "l", "i", ">", "<", "i", "n", "p", "u", "t", " ", "t", "y", "p", "e", "=", "\"", "c", "h", "e", "c", "k", "b", "o", "x", "\"">>
                               \o (IF item.checked[1] THEN <<" ", "c", "h", "e", "c", "k", "e", "d">> ELSE <<>>)
                               \o <<" ", "d", "i", "s", "a", "b", "l", "e", "d", "/", ">", " ">> \o inline \o <<"<", "/", "l", "i", ">", "\n">>
                     /\ html = render_list_item([item EXCEPT !.sub_items = <<>>])
                ELSE /\ html = <<"<", "l", "i", ">">> \o inline
                               \o (IF item.sub_items = <<>>
                                   THEN <<>>
                                   ELSE <<"\n", "<", "u", "l", ">", "\n">>
                                        \o Pieces(render_list_item, item.sub_items)
                                        \o <<"<", "/", "u", "l", ">", "\n">>)
                               \o <<"<", "/", "l", "i", ">", "\n">>
                     /\ Occurs(<<"<", "u", "l", ">">>, html) <=> item.sub_items # <<>>

\* C19 witness: the rendered page holds a checked item that has sub-items, an
\* unchecked checkbox item, and an item with no flag that has sub-items.
C19_Witness ==
    /\ Rendered
    /\ \E item \in ItemsOfPage : item.checked = Some(TRUE) /\ item.sub_items # <<>>
    /\ \E item \in ItemsOfPage : item.checked = Some(FALSE)
    /\ \E item \in ItemsOfPage : item.checked = None /\ item.sub_items # <<>>

\* What claim C20 says an element renders as.
RECURSIVE QuotedRendering(_)
QuotedRendering(e) ==
    IF e.t = "BlockQuote"
    THEN <<"<", "b", "l", "o", "c", "k", "q", "u", "o", "t", "e", ">", "\n">> \o Pieces(QuotedRendering, e.content)
         \o <<"<", "/", "b", "l", "o", "c", "k", "q", "u", "o", "t", "e", ">", "\n">>
    ELSE render_element(e)

\* C20: a BlockQuote renders as <blockquote> around the rendering of all its
\* inner elements in their order, block quotes inside it included; a quote
\* of a level-1 heading h and a paragraph p renders as
\* <blockquote><h1>h</h1><p>p</p></blockquote> up to line feeds.
C20_BlockQuoteRendering ==
    Rendered =>
        /\ Out = Pieces(QuotedRendering, doc)
        /\ \A i \in 1..Len(doc) :
              doc[i] = [t |-> "BlockQuote",
                        content |-> << [t |-> "Heading", level |-> 1,
                                        content |-> <<Text(<<"h">>)>>],
                                       [t |-> "Paragraph",
                                        content |-> <<Text(<<"p">>)>>] >>]
              => Unspaced(QuotedRendering(doc[i]))
                 = <<"<", "b", "l", "o", "c", "k", "q", "u", "o", "t", "e", ">", "<", "h", "1", ">", "h", "<", "/", "h", "1", ">", "<", "p", ">", "p", "<", "/", "p", ">", "<", "/", "b", "l", "o", "c", "k", "q", "u", "o", "t", "e", ">">>

\* C20 witness: the quote of a heading and a paragraph was rendered, and then
\* a block quote holding a block quote and a heading.
C20_Witness ==
    /\ Rendered
    /\ Len(doc) = 2
    /\ doc[1].t = "BlockQuote"
    /\ Len(doc[1].content) = 2
    /\ doc[1].content[1].t = "Heading"
    /\ doc[1].content[2].t = "Paragraph"
    /\ \E i \in 1..Len(doc) :
          /\ doc[i].t = "BlockQuote"
          /\ Len(doc[i].content) = 2
          /\ doc[i].content[1].t = "BlockQuote"
          /\ doc[i].content[2].t = "Heading"

\* An inline element with its user strings emptied: all of them, or only the
\* ones written into attribute values (url, title, alt).
RECURSIVE BlankInline(_, _)
BlankInline(el, all) ==
    LET inner(s) == [i \in 1..Len(s) |-> BlankInline(s[i], all)]
        title(x) == IF x = None THEN None ELSE Some(<<>>)
    IN  CASE el.t \in {"Text", "Code"} -> IF all THEN [el EXCEPT !.s = <<>>] ELSE el
          [] el.t = "Link" ->
               [el EXCEPT !.text = IF all THEN <<>> ELSE @,
                          !.url = <<>>, !.title = title(@)]
          [] el.t = "Image" ->
               [el EXCEPT !.alt = <<>>, !.url = <<>>, !.title = title(@)]
          [] el.t \in {"Emphasis", "Strikethrough"} ->
               [el EXCEPT !.content = inner(@)]
          [] OTHER -> el

BlankInlines(s, all) == [i \in 1..Len(s) |-> BlankInline(s[i], all)]

RECURSIVE BlankItem(_, _)
BlankItem(item, all) ==
    [item EXCEPT !.content = BlankInlines(@, all),
                 !.sub_items = [i \in 1..Len(@) |-> BlankItem(@[i], all)]]

RECURSIVE BlankElement(_, _)
BlankElement(e, all) ==
    CASE e.t \in {"Heading", "Paragraph"} ->
           [e EXCEPT !.content = BlankInlines(@, all)]
      [] e.t = "CodeBlock" -> IF all THEN [e EXCEPT !.content = <<>>] ELSE e
      [] e.t = "List" ->
           [e EXCEPT !.items = [i \in 1..Len(@) |-> BlankItem(@[i], all)]]
      [] e.t = "BlockQuote" ->
           [e EXCEPT !.content = [i \in 1..Len(@) |-> BlankElement(@[i], all)]]
      [] e.t = "Table" ->
           [e EXCEPT !.headers = [i \in 1..Len(@) |-> BlankInlines(@[i], all)],
                     !.rows = [i \in 1..Len(@) |->
                                  [j \in 1..Len(@[i]) |-> BlankInlines(@[i][j], all)]]]
      [] OTHER -> e

BlankPage(all) == [i \in 1..Len(doc) |-> BlankElement(doc[i], all)]

\* The element is, or holds, an Html element or a CodeBlock that the
\* highlighter renders.
RECURSIVE RawOrHighlighted(_)
RawOrHighlighted(e) ==
    CASE e.t = "Html" -> TRUE
      [] e.t = "CodeBlock" ->
           /\ e.language # None
           /\ FindSyntax(e.language[1]) # None
           /\ ~syntaxSet.fails
      [] e.t = "BlockQuote" ->
           \E i \in 1..Len(e.content) : RawOrHighlighted(e.content[i])
      [] OTHER -> FALSE

Entities == { <<"&", "a", "m", "p", ";">>, <<"&", "l", "t", ";">>, <<"&", "g", "t", ";">>, <<"&", "q", "u", "o", "t", ";">>, <<"&", "#", "x", "2", "7", ";">> }

\* C15: on a page with no Html element and no highlighted CodeBlock, the
\* output's < and > are the renderer's own tags (they are the ones of the
\* same page with every user string emptied), every & starts a character
\* reference, and the strings written into attribute values (url, title,
\* alt) contribute no double quote; an Html element's content is written
\* unchanged.
C15_UserTextEscaped ==
    Rendered =>
        LET markup(s) == SelectSeq(s, LAMBDA c : c \in {"<", ">"})
            quotes(s) == SelectSeq(s, LAMBDA c : c = "\"")
            html(e) == IF e.t = "Html" THEN e.content \o <<"\n">> ELSE render_element(e)
        IN  /\ Out = Pieces(html, doc)
            /\ (\A i \in 1..Len(doc) : ~RawOrHighlighted(doc[i])) =>
                  /\ markup(Out) = markup(render_elements_to_html(BlankPage(TRUE)))
                  /\ quotes(Out) = quotes(render_elements_to_html(BlankPage(FALSE)))
                  /\ \A i \in 1..Len(Out) :
                        Out[i] = "&" =>
                            \E ent \in Entities :
                                /\ i + Len(ent) - 1 <= Len(Out)
                                /\ SubSeq(Out, i, i + Len(ent) - 1) = ent

\* C15 witness: a page was rendered whose inline code, link and image hold
\* <, >, & and double quotes, and another with an Html element.
C15_Witness ==
    /\ Rendered
    /\ Len(doc) = 2
    /\ \A i \in 1..2 : doc[i].t = "Paragraph"
    /\ \E j \in 1..Len(doc[1].content) : doc[1].content[j].t = "Code"
    /\ \E j \in 1..Len(doc[2].content) : doc[2].content[j].t = "Link"

\* C15 witness: an Html element's content reached the output.
C15_HtmlWitness ==
    /\ Rendered
    /\ \E i \in 1..Len(doc) : doc[i].t = "Html" /\ Occurs(doc[i].content, Out)

\* ------------------------------------------------------------ heading slugs
\*
\* slugify is called as crate::markdown::slugify (builder.rs:337, 429) and is
\* defined in no source file; it is modelled from its contract: "lowercase,
\* non-alphanumeric runs collapsed to a single hyphen, leading/trailing
\* hyphens trimmed".

MaxInline == 2

Uppers == <<"A", "B", "C", "D", "E", "F", "G", "H", "I", "J", "K", "L", "M", "N", "O", "P", "Q", "R", "S", "T", "U", "V", "W", "X", "Y", "Z">>

Lowers == <<"a", "b", "c", "d", "e", "f", "g", "h", "i", "j", "k", "l", "m", "n", "o", "p", "q", "r", "s", "t", "u", "v", "w", "x", "y", "z">>

DigitChars == {"0", "1", "2", "3", "4", "5", "6", "7", "8", "9"}

IsAlnum(c) ==
    \/ c \in DigitChars
    \/ \E i \in 1..26 : c = Uppers[i] \/ c = Lowers[i]

ToLower(c) ==
    IF \E i \in 1..26 : c = Uppers[i]
    THEN Lowers[CHOOSE i \in 1..26 : c = Uppers[i]]
    ELSE c

\* slugify with the hyphen of a trailing run kept.
slugify_NoTrim(text) ==
    LET acc[i \in 0..Len(text)] ==
            IF i = 0 THEN <<>>
            ELSE IF IsAlnum(text[i]) THEN Append(acc[i - 1], ToLower(text[i]))
            ELSE IF acc[i - 1] # <<>> /\ Last(acc[i - 1]) # "-"
            THEN Append(acc[i - 1], "-")
            ELSE acc[i - 1]
    IN  acc[Len(text)]

\* slugify: the alphanumerics lowercased, one hyphen for every run of other
\* characters between them, none before the first or after the last.
slugify(text) ==
    LET acc[i \in 0..Len(text)] ==
            IF i = 0 THEN <<>>
            ELSE IF IsAlnum(text[i]) THEN Append(acc[i - 1], ToLower(text[i]))
            ELSE IF acc[i - 1] # <<>> /\ Last(acc[i - 1]) # "-"
            THEN Append(acc[i - 1], "-")
            ELSE acc[i - 1]
        out == acc[Len(text)]
    IN  IF out # <<>> /\ Last(out) = "-" THEN Front(out) ELSE out

\* The NavItem made from a Heading's content: its flattened text, and "#"
\* with the text's slug.
NavItemOf(content) ==
    LET text == render_inline_elements_text(content)
        slug == slugify(text)
    IN  [text |-> text, link |-> <<"#">> \o slug]

\* The inline elements the headings are made of.
InlinePool ==
    { Text(<<"G", "e", "t", "t", "i", "n", "g", " ", "S", "t", "a", "r", "t", "e", "d", "!">>),
      Text(<<"a", "<">>),
      Text(<<"&", "-", "B", "2">>),
      Text(<<"-", "-">>),
      [t |-> "Code", s |-> <<"c", ">">>],
      [t |-> "Link", text |-> <<"L", " ", "k">>, url |-> <<"u">>, title |-> None],
      [t |-> "Image", alt |-> <<"I", "_", "g">>, url |-> <<"v">>, title |-> None],
      [t |-> "SoftBreak"],
      [t |-> "HardBreak"],
      [t |-> "Emphasis", level |-> 1,
       content |-> <<Text(<<"e">>), [t |-> "HardBreak"]>>],
      [t |-> "Strikethrough",
       content |-> <<Text(<<"S">>),
                     [t |-> "Emphasis", level |-> 2,
                      content |-> <<[t |-> "Code", s |-> <<"d">>]>>]>>] }

\* A Heading's content is at hand and no NavItem has been made of it.
NavInit ==
    /\ BuilderIdle
    /\ RenderIdle
    /\ SiteIdle
    /\ ServeIdle
    /\ ConfigIdle
    /\ ScanIdle
    /\ RendererIdle
    /\ ReloadIdle
    /\ SocketIdle
    /\ InjectIdle
    /\ heading \in SeqsUpTo(InlinePool, MaxInline)
    /\ nav = None

\* The filter_map closure on a Heading below level 1.
MakeNavItem ==
    /\ nav = None
    /\ nav' = Some(NavItemOf(heading))
    /\ UNCHANGED <<builderVars, renderVars, siteVars, serveVars, configVars, heading, scanVars, rendererVars, reloadVars, socketVars, injectVars>>

NavNext == MakeNavItem

SpecNav == NavInit /\ [][NavNext]_vars

\* -------------------------------------------- claims on flattening and slugs

\* The NavItem was made; its text and the slug of its link.
Made == nav # None

NavText == nav[1].text

NavSlug == Tail(nav[1].link)

\* What claim C11 says one inline element flattens to.
RECURSIVE FlatOf(_)
FlatOf(el) ==
    CASE el.t \in {"Text", "Code"} -> el.s
      [] el.t = "Link" -> el.text
      [] el.t = "Image" -> el.alt
      [] el.t \in {"Emphasis", "Strikethrough"} -> Pieces(FlatOf, el.content)
      [] el.t \in {"SoftBreak", "HardBreak"} -> <<" ">>

\* C11: render_inline_elements_text of a sequence is the concatenation, in
\* order, of each element's text: the literal text of Text and Code, the text
\* of a Link and the alt of an Image as they are, the flattening of the
\* content of Emphasis and Strikethrough, and one space for a SoftBreak and
\* for a HardBreak; so flatten(xs ++ ys) = flatten(xs) ++ flatten(ys).
C11_FlattenIsConcatenation ==
    Made =>
        /\ NavText = Pieces(FlatOf, heading)
        /\ \A k \in 0..Len(heading) :
              NavText = render_inline_elements_text(SubSeq(heading, 1, k))
                        \o render_inline_elements_text(SubSeq(heading, k + 1, Len(heading)))

\* C11 witness: a heading of a HardBreak and a Strikethrough that holds an
\* Emphasis was flattened.
C11_Witness ==
    /\ Made
    /\ Len(heading) = 2
    /\ heading[1].t = "HardBreak"
    /\ heading[2].t = "Strikethrough"
    /\ \E i \in 1..Len(heading[2].content) : heading[2].content[i].t = "Emphasis"

\* The heading is made of Text elements only; their strings, concatenated.
TextOnly == \A i \in 1..Len(heading) : heading[i].t = "Text"

InputText ==
    LET s(el) == el.s
    IN  Pieces(s, heading)

NeedsEscape(s) == \E i \in 1..Len(s) : s[i] \in {"<", ">", "&"}

\* C12 as stated: the flattening of a sequence of Text elements is the
\* HTML-escaped concatenation of their strings.
C12_FlattenedIsEscaped ==
    (Made /\ TextOnly) => NavText = encode_text(InputText)

\* C12, amended: the flattening of a sequence of Text elements is the
\* concatenation of their strings as they are, with nothing escaped; it is
\* the HTML rendering of the sequence that is the escaped form of that text,
\* and the two agree exactly when the text holds no <, > or &.
C12_FlattenedIsVerbatim ==
    (Made /\ TextOnly) =>
        /\ NavText = InputText
        /\ render_inline_elements(heading) = encode_text(NavText)
        /\ NavText = encode_text(InputText) <=> ~NeedsEscape(InputText)

\* C12 witness: a heading of two Text elements, with < and & in them, was
\* flattened.
C12_Witness ==
    /\ Made
    /\ TextOnly
    /\ Len(heading) = 2
    /\ \E i \in 1..Len(InputText) : InputText[i] = "<"
    /\ \E i \in 1..Len(InputText) : InputText[i] = "&"

\* The positions of s that hold a character satisfying P.
Positions(s, P(_)) ==
    SelectSeq([i \in 1..Len(s) |-> i], LAMBDA i : P(s[i]))

NotHyphen(c) == c # "-"

\* C13: the slug of a heading's text is made of lowercase letters, digits and
\* hyphens only; it is the text's alphanumerics, lowercased, in order, with
\* one hyphen between two of them exactly when other characters separate
\* them in the text, and no hyphen first, last or next to another; slugify
\* leaves a slug as it is, gives the same slug for the same text, and maps
\* "Getting Started!" to "getting-started".
C13_SlugContract ==
    Made =>
        LET inText == Positions(NavText, IsAlnum)
            inSlug == Positions(NavSlug, NotHyphen)
        IN  /\ \A i \in 1..Len(NavSlug) :
                  \/ NavSlug[i] = "-"
                  \/ NavSlug[i] \in DigitChars
                  \/ \E j \in 1..26 : NavSlug[i] = Lowers[j]
            /\ Len(inSlug) = Len(inText)
            /\ \A k \in 1..Len(inText) :
                  NavSlug[inSlug[k]] = ToLower(NavText[inText[k]])
            /\ \A k \in 1..(Len(inText) - 1) :
                  inSlug[k + 1] - inSlug[k]
                  = IF inText[k + 1] - inText[k] = 1 THEN 1 ELSE 2
            /\ NavSlug # <<>> => NavSlug[1] # "-" /\ Last(NavSlug) # "-"
            /\ \A i \in 1..(Len(NavSlug) - 1) :
                  ~(NavSlug[i] = "-" /\ NavSlug[i + 1] = "-")
            /\ slugify(NavSlug) = NavSlug
            /\ NavSlug = slugify(render_inline_elements_text(heading))
            /\ NavText = <<"G", "e", "t", "t", "i", "n", "g", " ", "S", "t", "a", "r", "t", "e", "d", "!">> => NavSlug = <<"g", "e", "t", "t", "i", "n", "g", "-", "s", "t", "a", "r", "t", "e", "d">>

\* C13 witness: the NavItem of the heading "Getting Started!" was made.
C13_Witness ==
    /\ Made
    /\ NavText = <<"G", "e", "t", "t", "i", "n", "g", " ", "S", "t", "a", "r", "t", "e", "d", "!">>
    /\ nav[1].link = <<"#", "g", "e", "t", "t", "i", "n", "g", "-", "s", "t", "a", "r", "t", "e", "d">>

\* How many times s occurs in t.
CountOf(s, t) ==
    Cardinality({ i \in 0..(Len(t) - Len(s)) : SubSeq(t, i + 1, i + Len(s)) = s })

\* C21: render_table writes a <thead> block exactly when there are headers
\* and a <tbody> block exactly when there are rows; the head row holds one
\* <th> per header cell and every body row one <td> per cell of that row,
\* whatever the width of the header.
C21_TableRendering ==
    Rendered =>
        LET th(cell) == <<"<", "t", "h", ">">> \o render_inline_elements(cell) \o <<"<", "/", "t", "h", ">", "\n">>
            td(cell) == <<"<", "t", "d", ">">> \o render_inline_elements(cell) \o <<"<", "/", "t", "d", ">", "\n">>
            tr(row) == <<"<", "t", "r", ">", "\n">> \o Pieces(td, row) \o <<"<", "/", "t", "r", ">", "\n">>
            cells(rows) ==
                LET sum[i \in 0..Len(rows)] ==
                        IF i = 0 THEN 0 ELSE sum[i - 1] + Len(rows[i])
                IN  sum[Len(rows)]
            claimed(e) ==
                IF e.t = "Table"
                THEN <<"<", "t", "a", "b", "l", "e", ">", "\n">>
                     \o (IF e.headers = <<>> THEN <<>>
                         ELSE <<"<", "t", "h", "e", "a", "d", ">", "\n", "<", "t", "r", ">", "\n">> \o Pieces(th, e.headers)
                              \o <<"<", "/", "t", "r", ">", "\n", "<", "/", "t", "h", "e", "a", "d", ">", "\n">>)
                     \o (IF e.rows = <<>> THEN <<>>
                         ELSE <<"<", "t", "b", "o", "d", "y", ">", "\n">> \o Pieces(tr, e.rows) \o <<"<", "/", "t", "b", "o", "d", "y", ">", "\n">>)
                     \o <<"<", "/", "t", "a", "b", "l", "e", ">", "\n">>
                ELSE render_element(e)
        IN  /\ Out = Pieces(claimed, doc)
            /\ \A i \in 1..Len(doc) :
                  doc[i].t = "Table" =>
                      LET html == render_element(doc[i])
                      IN  /\ CountOf(<<"<", "t", "h", "e", "a", "d", ">">>, html)
                             = IF doc[i].headers = <<>> THEN 0 ELSE 1
                          /\ CountOf(<<"<", "t", "b", "o", "d", "y", ">">>, html)
                             = IF doc[i].rows = <<>> THEN 0 ELSE 1
                          /\ CountOf(<<"<", "t", "h", ">">>, html) = Len(doc[i].headers)
                          /\ CountOf(<<"<", "t", "d", ">">>, html) = cells(doc[i].rows)

\* C21 witness: a table with no headers was rendered, and then a table whose
\* rows are shorter and longer than its header.
C21_Witness ==
    /\ Rendered
    /\ Len(doc) = 2
    /\ doc[1].t = "Table" /\ doc[1].headers = <<>> /\ doc[1].rows # <<>>
    /\ doc[2].t = "Table"
    /\ \E i \in 1..Len(doc[2].rows) : Len(doc[2].rows[i]) < Len(doc[2].headers)
    /\ \E i \in 1..Len(doc[2].rows) : Len(doc[2].rows[i]) > Len(doc[2].headers)

\* ------------------------------------------- claims on the builder, continued

AtomicInline == {"Text", "Code", "SoftBreak", "HardBreak"}

\* The InlineElement of the atomic event handled last.
AtomOfEvent ==
    IF ev[1].e \in {"Text", "Code"}
    THEN [t |-> ev[1].e, s |-> ev[1].s]
    ELSE [t |-> ev[1].e]

\* C27: a Text, Code, SoftBreak or HardBreak event appends one InlineElement
\* of the event's own variant (a HardBreak stays a HardBreak, a SoftBreak a
\* SoftBreak) at the end of the top frame's inline buffer and changes nothing
\* else: not the depth of the stack, not another frame, not another field of
\* the top frame, not the top-level output; with no frame open the event
\* changes nothing at all.
C27_InlineAtomAppended ==
    (ev # None /\ ev[1].e \in AtomicInline) =>
        /\ elements = preElements
        /\ Len(stack) = Len(preStack)
        /\ preStack = <<>> => stack = <<>>
        /\ preStack # <<>> =>
              /\ Front(stack) = Front(preStack)
              /\ Last(stack).inline_content
                 = Append(Last(preStack).inline_content, AtomOfEvent)
              /\ Last(stack)
                 = [Last(preStack) EXCEPT !.inline_content = Last(stack).inline_content]

\* C27 witness: a HardBreak was appended to a frame, below another frame,
\* whose buffer already held a SoftBreak.
C27_Witness ==
    /\ Was("HardBreak")
    /\ Len(preStack) = 2
    /\ \E i \in 1..Len(Last(preStack).inline_content) :
          Last(preStack).inline_content[i].t = "SoftBreak"
    /\ Last(Last(stack).inline_content).t = "HardBreak"

\* C27 witness: a Text event arrived with no frame open.
C27_DroppedWitness == Was("Text") /\ preStack = <<>> /\ preElements # <<>>

\* C28: a Start pushes one frame and an End, whatever its TagEnd, pops the
\* top frame when there is one, so the depth of the stack is the number of
\* Starts minus the number of Ends that found a frame, and is 0 when the
\* stream ends if every Start was closed; the frames still open when the
\* stream ends leave the returned output as it was.
C28_StackDiscipline ==
    /\ phase = "loop" => Len(stack) = depth
    /\ Was("Start") => Front(stack) = preStack
    /\ (Was("End") /\ preStack # <<>>) =>
          /\ Len(stack) = Len(preStack) - 1
          /\ Len(stack) > 1 => SubSeq(stack, 1, Len(stack) - 1) = SubSeq(preStack, 1, Len(stack) - 1)
    /\ (ev # None /\ ev[1].e \notin {"Start", "End"}) => Len(stack) = Len(preStack)
    /\ phase = "returned" =>
          /\ Len(preStack) = depth
          /\ stack = <<>>
          /\ elements = preElements

\* C28 witness: a Heading frame was popped by an End (the Ends of the stream
\* name a Paragraph or an Item), and the stream ended with two frames open.
C28_Witness ==
    /\ phase = "returned"
    /\ Len(preStack) = 2
    /\ depth = 2
    /\ n = 4
    /\ elements = <<[t |-> "Heading", level |-> 1, content |-> <<>>]>>

\* The ListItems of a List and of the lists quoted in a BlockQuote.
RECURSIVE ItemsIn(_)
ItemsIn(e) ==
    CASE e.t = "List" -> { e.items[i] : i \in 1..Len(e.items) }
      [] e.t = "BlockQuote" -> UNION { ItemsIn(e.content[i]) : i \in 1..Len(e.content) }
      [] OTHER -> {}

\* Every ListItem the builder holds: in the output, and in the open frames.
BuiltItems ==
    UNION ( { ItemsIn(elements[i]) : i \in 1..Len(elements) }
            \cup { { stack[i].list_items[j] : j \in 1..Len(stack[i].list_items) }
                   : i \in 1..Len(stack) }
            \cup { UNION { ItemsIn(stack[i].block_content[j])
                           : j \in 1..Len(stack[i].block_content) }
                   : i \in 1..Len(stack) } )

\* C29: every ListItem the builder makes has no sub-items and no checked
\* flag: a block closed while a list-item frame is on top of the stack is
\* dropped, the item's frame and the output staying as they were, and an
\* event of the `_` arm, a task-list marker among them, changes nothing.
C29_ListItemsAreFlat ==
    /\ \A item \in BuiltItems : item.sub_items = <<>> /\ item.checked = None
    /\ (Closed /\ Popped.kind.k \notin (InlineKinds \cup {"ListItem"})
        /\ Rest # <<>> /\ Last(Rest).kind.k = "ListItem") =>
          /\ stack = Rest
          /\ elements = preElements
    /\ Was("Other") => stack = preStack /\ elements = preElements

\* C29 witness: a paragraph holding text was closed while the frame of a
\* list's item was on top of the stack.
C29_Witness ==
    /\ Closed
    /\ Popped.kind.k = "Paragraph"
    /\ Popped.inline_content # <<>>
    /\ Len(Rest) = 2
    /\ Rest[1].kind.k = "List"
    /\ Rest[2].kind.k = "ListItem"

\* C29 witness: a list holding an item was emitted.
C29_ItemWitness ==
    /\ Closed
    /\ Popped.kind.k = "List"
    /\ \E i \in 1..Len(elements) :
          elements[i].t = "List" /\ elements[i].items # <<>>

\* ------------------------------------------------------ std::path::PathBuf
\*
\* A path is its components, and whether a separator ends it.

Path(parts) == [parts |-> parts, sep |-> FALSE]

\* The index of the last "." of a name, 0 if it has none.
LastDot(name) ==
    LET dots == { i \in 1..Len(name) : name[i] = "." }
    IN  IF dots = {} THEN 0 ELSE CHOOSE i \in dots : \A j \in dots : j <= i

\* Path::file_stem of a file name: the name up to its last ".", the whole
\* name if the only "." begins it.
StemOf(name) ==
    IF LastDot(name) <= 1 THEN name ELSE SubSeq(name, 1, LastDot(name) - 1)

\* PathBuf::push of a relative path of one component, "" included.
push(p, name) ==
    IF name = <<>>
    THEN [p EXCEPT !.sep = p.parts # <<>>]
    ELSE [parts |-> Append(p.parts, name), sep |-> FALSE]

\* Path::with_file_name.
with_file_name(p, name) ==
    push(IF p.parts = <<>> THEN p ELSE Path(Front(p.parts)), name)

\* Path::with_extension(""): the path cut at the end of its file stem.
with_extension_empty(p) ==
    IF p.parts = <<>>
    THEN p
    ELSE Path(SetLast(p.parts, StemOf(Last(p.parts))))

\* Path::join of one component.
join(p, name) == push(p, name)

\* Path::strip_prefix(base).unwrap_or(path).
strip_prefix_or(p, base) ==
    IF IsPrefix(base.parts, p.parts)
    THEN [p EXCEPT !.parts = SubSeq(p.parts, Len(base.parts) + 1, Len(p.parts))]
    ELSE p

\* to_string_lossy().
PathString(p) ==
    LET acc[i \in 0..Len(p.parts)] ==
            IF i = 0 THEN <<>>
            ELSE (IF i = 1 THEN <<>> ELSE acc[i - 1] \o <<"/">>) \o p.parts[i]
    IN  acc[Len(p.parts)] \o (IF p.sep THEN <<"/">> ELSE <<>>)

\* ------------------------------------------------------------ Site::render_all

MaxPages == 2

source_dir == Path(<<<<"s">>>>)

\* Page::template_name.
template_name(page) ==
    CASE page.page_type = "Home" -> <<"h", "o", "m", "e", ".", "h", "t", "m", "l">>
      [] page.page_type = "Changelog" -> <<"c", "h", "a", "n", "g", "e", "l", "o", "g", ".", "h", "t", "m", "l">>
      [] OTHER -> <<"p", "a", "g", "e", ".", "h", "t", "m", "l">>

\* Site::page_out_path.
page_out_path(page) ==
    LET relative_path == strip_prefix_or(page.path, source_dir)
    IN  CASE page.page_type = "Home" -> Path(<<<<"i", "n", "d", "e", "x", ".", "h", "t", "m", "l">>>>)
          [] page.page_type = "Changelog" -> Path(<<<<"c", "h", "a", "n", "g", "e", "l", "o", "g">>, <<"i", "n", "d", "e", "x", ".", "h", "t", "m", "l">>>>)
          [] page.page_type = "Index" ->
               join(with_extension_empty(with_file_name(relative_path, <<>>)),
                    <<"i", "n", "d", "e", "x", ".", "h", "t", "m", "l">>)
          [] OTHER -> join(with_extension_empty(relative_path), <<"i", "n", "d", "e", "x", ".", "h", "t", "m", "l">>)

\* Site::page_url.
page_url(page) == PathString(with_file_name(page_out_path(page), <<>>))

\* The retain of render_home under home_config.hero.
HeroFilter(elems) ==
    LET acc[i \in 0..Len(elems)] ==
            IF i = 0
            THEN [found_h1 |-> FALSE, found_paragraph_after_h1 |-> FALSE,
                  kept |-> <<>>]
            ELSE LET a == acc[i - 1]
                     e == elems[i]
                 IN  CASE e.t = "Heading" /\ e.level = 1 /\ ~a.found_h1 ->
                            [a EXCEPT !.found_h1 = TRUE]
                       [] /\ e.t = "Paragraph"
                          /\ a.found_h1
                          /\ ~a.found_paragraph_after_h1 ->
                            [a EXCEPT !.found_paragraph_after_h1 = TRUE]
                       [] OTHER -> [a EXCEPT !.kept = Append(@, e)]
    IN  acc[Len(elems)].kept

\* The headings a filter_map closure makes NavItems of, keeping `keeps`.
NavItemsOf(elems, keeps(_)) ==
    LET acc[i \in 0..Len(elems)] ==
            IF i = 0 THEN <<>>
            ELSE IF elems[i].t = "Heading" /\ keeps(elems[i])
            THEN Append(acc[i - 1], NavItemOf(elems[i].content))
            ELSE acc[i - 1]
    IN  acc[Len(elems)]

\* The releases with every heading below the title taken.
Releases_BelowTitle(elems) ==
    LET keeps(e) == e.level # 1
    IN  NavItemsOf(elems, keeps)

\* render_changelog's `releases`: the level-2 headings.
Releases(elems) ==
    LET keeps(e) == e.level = 2
    IN  NavItemsOf(elems, keeps)

\* render_all's `headings` of a collection page: every heading but level 1.
OnThisPage(elems) ==
    LET keeps(e) == e.level # 1
    IN  NavItemsOf(elems, keeps)

\* render_all's `page_links` of a collection.
PageLinks(pages) ==
    [i \in 1..Len(pages) |->
        [text |-> pages[i].title, link |-> <<"/">> \o page_url(pages[i])]]

HeadingOf(level, s) == [t |-> "Heading", level |-> level, content |-> <<Text(s)>>]

ParagraphOf(s) == [t |-> "Paragraph", content |-> <<Text(s)>>]

Page(title, path, page_type, elems) ==
    [title |-> title, path |-> Path(path), page_type |-> page_type,
     elements |-> elems]

\* The pages of a site's root: what get_page_structured makes of each file.
PagePool ==
    { Page(<<"T">>, <<<<"R", "E", "A", "D", "M", "E", ".", "m", "d">>>>, "Home",
           <<HeadingOf(1, <<"T">>), ParagraphOf(<<"a">>), ParagraphOf(<<"b">>)>>),
      Page(<<"T">>, <<<<"R", "E", "A", "D", "M", "E", ".", "m", "d">>>>, "Home",
           <<HeadingOf(1, <<"T">>),
             [t |-> "CodeBlock", language |-> None, content |-> <<"c">>],
             ParagraphOf(<<"a">>)>>),
      Page(<<"s">>, <<<<"R", "E", "A", "D", "M", "E", ".", "m", "d">>>>, "Home",
           <<HeadingOf(2, <<"s">>), ParagraphOf(<<"a">>), HeadingOf(1, <<"T">>), HeadingOf(1, <<"U">>)>>),
      Page(<<"C">>, <<<<"C", "H", "A", "N", "G", "E", "L", "O", "G", ".", "m", "d">>>>, "Changelog",
           <<HeadingOf(1, <<"C">>), HeadingOf(2, <<"v", " ", "2">>), ParagraphOf(<<"a">>), HeadingOf(2, <<"v", " ", "2">>), HeadingOf(3, <<"x">>),
             [t |-> "BlockQuote", content |-> <<HeadingOf(2, <<"q">>)>>]>>),
      Page(<<"i">>, <<<<"i", "n", "d", "e", "x", ".", "m", "d">>>>, "Index", <<ParagraphOf(<<"i">>)>>),
      Page(<<"r">>, <<<<"s">>, <<"a", ".", "b", ".", "m", "d">>>>, "Regular", <<HeadingOf(1, <<"r">>)>>),
      Page(<<"u">>, <<<<"u">>>>, "Unknown", <<>>) }

\* The collections of a site: a directory and the pages under it.
CollectionPool ==
    { [name |-> <<"v", "1", ".", "2">>,
       pages |-> << Page(<<"I">>, <<<<"v", "1", ".", "2">>, <<"i", "n", "d", "e", "x", ".", "m", "d">>>>, "Index",
                         <<HeadingOf(1, <<"I">>), HeadingOf(2, <<"a">>), HeadingOf(3, <<"b">>)>>),
                    Page(<<"g">>, <<<<"v", "1", ".", "2">>, <<"g", ".", "m", "d">>>>, "Regular", <<ParagraphOf(<<"g">>)>>) >>] }

HomeConfigs == { None, Some([hero |-> TRUE]), Some([hero |-> FALSE]) }

\* What a step of render_all meets: success, a source file that cannot be
\* read, a template that fails, a directory or file that cannot be written.
Outcomes == {"ok", "unreadable", "template", "io"}

\* The position render_all moves to after page i of self.pages, and after
\* page i of collection c: the next page, the first page of the next
\* collection that has one, or the end.
RECURSIVE FirstPageFrom(_)
FirstPageFrom(c) ==
    IF c > Len(site.collections) THEN [pc |-> "ok", c |-> 0, i |-> 0]
    ELSE IF site.collections[c].pages # <<>>
    THEN [pc |-> "collections", c |-> c, i |-> 1]
    ELSE FirstPageFrom(c + 1)

AfterPage(i) ==
    IF i < Len(site.pages)
    THEN [pc |-> "pages", c |-> 0, i |-> i + 1]
    ELSE FirstPageFrom(1)

AfterCollectionPage(c, i) ==
    IF i < Len(site.collections[c].pages)
    THEN [pc |-> "collections", c |-> c, i |-> i + 1]
    ELSE FirstPageFrom(c + 1)

\* The `?` on a failed step, and the panic of read_to_string(..).expect(..).
Failed(outcome) ==
    [at EXCEPT !.pc = CASE outcome = "unreadable" -> "panicked"
                        [] outcome = "template" -> "TemplateError"
                        [] outcome = "io" -> "IoError"]

\* One file written under output_dir: by which function, for which page,
\* from which template and context, at which path.
Output(via, page, template, context) ==
    [via |-> via, c |-> at.c, i |-> at.i, template |-> template,
     path |-> PathString(IF via = "render_changelog"
                         THEN Path(<<<<"c", "h", "a", "n", "g", "e", "l", "o", "g">>, <<"i", "n", "d", "e", "x", ".", "h", "t", "m", "l">>>>)
                         ELSE page_out_path(page)),
     context |-> context]

Context(elems, home, releases, collection_pages, on_this_page) ==
    [elements |-> elems,
     page_content |-> render_elements_to_html(elems),
     home |-> home,
     releases |-> releases,
     collection_pages |-> collection_pages,
     on_this_page |-> on_this_page]

SiteInit ==
    /\ BuilderIdle
    /\ RenderIdle
    /\ NavIdle
    /\ ServeIdle
    /\ ConfigIdle
    /\ ScanIdle
    /\ RendererIdle
    /\ ReloadIdle
    /\ SocketIdle
    /\ InjectIdle
    /\ \E pages \in SeqsUpTo(PagePool, MaxPages) :
       \E collections \in SeqsUpTo(CollectionPool, 1) :
       \E home_config \in HomeConfigs :
          site = [pages |-> pages, collections |-> collections,
                  home_config |-> home_config]
    /\ at = [pc |-> "start", c |-> 0, i |-> 0]
    /\ outputs = <<>>

\* create_dir_all(&self.output_dir)?
CreateOutputDir ==
    /\ at.pc = "start"
    /\ \E outcome \in {"ok", "io"} :
          at' = IF outcome = "ok" THEN AfterPage(0) ELSE Failed(outcome)
    /\ UNCHANGED <<site, outputs>>
    /\ UNCHANGED <<builderVars, renderVars, navVars, serveVars, configVars, scanVars, rendererVars, reloadVars, socketVars, injectVars>>

\* The page of self.pages the loop is at.
PageAt == site.pages[at.i]

\* One page through one of the three render functions.
Rendering(via, page, context, next) ==
    \E outcome \in Outcomes :
        /\ at' = IF outcome = "ok" THEN next ELSE Failed(outcome)
        /\ outputs' = IF outcome = "ok"
                      THEN Append(outputs, Output(via, page, template_name(page), context))
                      ELSE outputs
        /\ UNCHANGED site
        /\ UNCHANGED <<builderVars, renderVars, navVars, serveVars, configVars, scanVars, rendererVars, reloadVars, socketVars, injectVars>>

\* PageType::Home with a home configuration: render_home.
RenderHome ==
    /\ at.pc = "pages"
    /\ PageAt.page_type = "Home"
    /\ site.home_config # None
    /\ LET home_config == site.home_config[1]
           elems == IF home_config.hero
                    THEN HeroFilter(PageAt.elements)
                    ELSE PageAt.elements
       IN  Rendering("render_home", PageAt,
                     Context(elems, Some(home_config), <<>>, <<>>, <<>>),
                     AfterPage(at.i))

\* PageType::Changelog: render_changelog.
RenderChangelog ==
    /\ at.pc = "pages"
    /\ PageAt.page_type = "Changelog"
    /\ Rendering("render_changelog", PageAt,
                 Context(PageAt.elements, None, Releases(PageAt.elements), <<>>, <<>>),
                 AfterPage(at.i))

\* PageType::Home without a home configuration, and every other type:
\* render_regular_page.
RenderRegularPage ==
    /\ at.pc = "pages"
    /\ \/ PageAt.page_type = "Home" /\ site.home_config = None
       \/ PageAt.page_type \notin {"Home", "Changelog"}
    /\ Rendering("render_regular_page", PageAt,
                 Context(PageAt.elements, None, <<>>, <<>>, <<>>),
                 AfterPage(at.i))

\* One page of one collection, from doc.html.
RenderCollectionPage ==
    /\ at.pc = "collections"
    /\ LET collection == site.collections[at.c]
           page == collection.pages[at.i]
       IN  \E outcome \in Outcomes :
              /\ at' = IF outcome = "ok"
                       THEN AfterCollectionPage(at.c, at.i)
                       ELSE Failed(outcome)
              /\ outputs' =
                    IF outcome = "ok"
                    THEN Append(outputs,
                             Output("render_all", page, <<"d", "o", "c", ".", "h", "t", "m", "l">>,
                                    Context(page.elements, None, <<>>,
                                            PageLinks(collection.pages),
                                            OnThisPage(page.elements))))
                    ELSE outputs
              /\ UNCHANGED site
              /\ UNCHANGED <<builderVars, renderVars, navVars, serveVars, configVars, scanVars, rendererVars, reloadVars, socketVars, injectVars>>

SiteNext ==
    \/ CreateOutputDir
    \/ RenderHome
    \/ RenderChangelog
    \/ RenderRegularPage
    \/ RenderCollectionPage

SpecSite == SiteInit /\ [][SiteNext]_vars

\* ------------------------------------------------------ claims on render_all

\* The page an output was written for.
PageOf(out) ==
    IF out.c = 0 THEN site.pages[out.i] ELSE site.collections[out.c].pages[out.i]

\* The least element of a non-empty set of numbers.
Least(S) == CHOOSE i \in S : \A j \in S : i <= j

\* What claim C22 says hero mode hands to the renderer: the sequence without
\* its first Heading, and without its first Paragraph if that is the element
\* right after the Heading.
ClaimedHero(elems) ==
    LET hs == { i \in 1..Len(elems) : elems[i].t = "Heading" }
        ps == { i \in 1..Len(elems) : elems[i].t = "Paragraph" }
        gone == IF hs = {} THEN {}
                ELSE {Least(hs)}
                     \cup (IF ps # {} /\ Least(ps) = Least(hs) + 1
                           THEN {Least(ps)} ELSE {})
        keep == SelectSeq([i \in 1..Len(elems) |-> i], LAMBDA i : i \notin gone)
    IN  [k \in 1..Len(keep) |-> elems[keep[k]]]

\* C22: render_home hands the renderer the page's elements as they are when
\* hero is off, and when hero is on the elements without the first Heading
\* and without the first Paragraph if it comes right after that Heading, all
\* others kept in order.
C22_HeroStrip ==
    \A k \in 1..Len(outputs) :
        outputs[k].via = "render_home" =>
            outputs[k].context.elements
            = IF site.home_config[1].hero
              THEN ClaimedHero(PageOf(outputs[k]).elements)
              ELSE PageOf(outputs[k]).elements

\* The positions of the level-2 headings among a page's top-level elements.
Level2At(elems) ==
    SelectSeq([i \in 1..Len(elems) |-> i],
              LAMBDA i : elems[i].t = "Heading" /\ elems[i].level = 2)

\* C23: the releases handed to changelog.html are, in document order, one
\* pair for each top-level level-2 Heading of the page and none for another
\* element: the heading's flattened text, and "#" with the slug of that
\* text; headings of equal text get the same link, nothing making them
\* differ.
C23_Releases ==
    \A k \in 1..Len(outputs) :
        outputs[k].via = "render_changelog" =>
            LET elems == PageOf(outputs[k]).elements
                at2 == Level2At(elems)
                releases == outputs[k].context.releases
            IN  /\ Len(releases) = Len(at2)
                /\ \A r \in 1..Len(at2) :
                      /\ releases[r].text = Pieces(FlatOf, elems[at2[r]].content)
                      /\ releases[r].link = <<"#">> \o slugify(releases[r].text)
                /\ \A r \in 1..Len(releases) : \A q \in 1..Len(releases) :
                      releases[r].text = releases[q].text
                      => releases[r].link = releases[q].link

\* C23 witness: a changelog was written whose page holds a level-1, a
\* level-3 and a quoted level-2 heading, and two level-2 headings of equal
\* text, which got the same link.
C23_Witness ==
    \E k \in 1..Len(outputs) :
        /\ outputs[k].via = "render_changelog"
        /\ Len(outputs[k].context.releases) = 2
        /\ outputs[k].context.releases[1] = outputs[k].context.releases[2]
        /\ outputs[k].context.releases[1].link = <<"#", "v", "-", "2">>
        /\ \E i \in 1..Len(PageOf(outputs[k]).elements) :
              PageOf(outputs[k]).elements[i].t = "BlockQuote"
        /\ \A l \in {1, 3} : \E i \in 1..Len(PageOf(outputs[k]).elements) :
              /\ PageOf(outputs[k]).elements[i].t = "Heading"
              /\ PageOf(outputs[k]).elements[i].level = l

\* Every page of the site: the collection it is in (0 for self.pages) and
\* its index there.
AllPages ==
    { [c |-> 0, i |-> i] : i \in 1..Len(site.pages) }
    \cup UNION { { [c |-> c, i |-> i] : i \in 1..Len(site.collections[c].pages) }
                 : c \in 1..Len(site.collections) }

\* C24: when render_all ends on the failure of one page, every other page of
\* the site, collection pages included, has been written.
C24_PartialSuccess ==
    (at.pc \in {"TemplateError", "IoError", "panicked"} /\ at.i > 0) =>
        \A pg \in AllPages \ {[c |-> at.c, i |-> at.i]} :
            \E k \in 1..Len(outputs) : outputs[k].c = pg.c /\ outputs[k].i = pg.i

\* The index of the last c in s, 0 if there is none.
LastIndexOf(s, c) ==
    LET is == { i \in 1..Len(s) : s[i] = c }
    IN  IF is = {} THEN 0 ELSE CHOOSE i \in is : \A j \in is : j <= i

\* The path under the source directory, its directory part ("" or ending in
\* "/") and the path without the extension of its file name.
RelativeOf(page) == PathString(strip_prefix_or(page.path, source_dir))

DirectoryOf(s) == SubSeq(s, 1, LastIndexOf(s, "/"))

WithoutExtension(s) ==
    IF LastIndexOf(s, ".") > LastIndexOf(s, "/") + 1
    THEN SubSeq(s, 1, LastIndexOf(s, ".") - 1)
    ELSE s

\* C30: the role of a page fixes its template and its output path: home.html
\* and index.html for Home, changelog.html and changelog/index.html for
\* Changelog, page.html for every other role, <directory>/index.html for an
\* Index page and <path without extension>/index.html for a Regular one; a
\* Home page goes through render_home exactly when there is a home
\* configuration, and through render_regular_page otherwise.
C30_RoleDecides ==
    \A k \in 1..Len(outputs) :
        LET page == PageOf(outputs[k])
            role == page.page_type
        IN  /\ outputs[k].c = 0 =>
                  /\ outputs[k].template
                     = CASE role = "Home" -> <<"h", "o", "m", "e", ".", "h", "t", "m", "l">>
                         [] role = "Changelog" -> <<"c", "h", "a", "n", "g", "e", "l", "o", "g", ".", "h", "t", "m", "l">>
                         [] OTHER -> <<"p", "a", "g", "e", ".", "h", "t", "m", "l">>
                  /\ role = "Home" =>
                        outputs[k].via = IF site.home_config # None
                                         THEN "render_home"
                                         ELSE "render_regular_page"
            /\ role = "Home" => outputs[k].path = <<"i", "n", "d", "e", "x", ".", "h", "t", "m", "l">>
            /\ role = "Changelog" => outputs[k].path = <<"c", "h", "a", "n", "g", "e", "l", "o", "g", "/", "i", "n", "d", "e", "x", ".", "h", "t", "m", "l">>
            /\ role = "Index" =>
                  outputs[k].path = DirectoryOf(RelativeOf(page)) \o <<"i", "n", "d", "e", "x", ".", "h", "t", "m", "l">>
            /\ role = "Regular" =>
                  outputs[k].path
                  = WithoutExtension(RelativeOf(page)) \o <<"/", "i", "n", "d", "e", "x", ".", "h", "t", "m", "l">>

\* ------------------------------------------- serve: zap-cli/src/cmd/serve.rs
\*
\* execute builds the site once, then spawns the dev server and the task that
\* runs watch_source_files.  The debouncer's thread sends the changed paths
\* on a bounded channel; the task receives them one at a time and rebuilds.

\* The paths the debouncer sends while the command runs.
MaxChanges == 3

\* The capacity of the watcher's channel (100 in the source).
ChannelCap == 2

\* The directory the command is started in.
cwd == Path(<<<<"/">>, <<"w">>>>)

\* The directories and the file that are watched, as the command is given
\* them; all three exist.
serve_source_dir == Path(<<<<".">>, <<"s", "i", "t", "e">>>>)

serve_theme_dir == Path(<<<<".">>, <<"t", "h", "e", "m", "e">>>>)

serve_config_file == Path(<<<<".">>, <<"z", "a", "p", ".", "t", "o", "m", "l">>>>)

\* The symbolic links of the file system: ./theme is a link to a theme kept
\* beside the site's, ./site and ./zap.toml are what they are.
Links == { [from |-> <<<<"/">>, <<"w">>, <<"t", "h", "e", "m", "e">>>>,
            to |-> <<<<"/">>, <<"w">>, <<"t", "h", "e", "m", "e", "s">>, <<"t">>>>] }

\* A changed path as the watcher reports it, below the watched path as it was
\* given and made absolute; whether it still exists when it is received; and
\* which watch reported it ("outside" for a path none of them covers).
Changed(of, parts, exists) ==
    [parts |-> cwd.parts \o parts, sep |-> FALSE, exists |-> exists, of |-> of]

ChangedPaths ==
    { Changed("source", <<<<".">>, <<"s", "i", "t", "e">>, <<"a", ".", "m", "d">>>>, TRUE),
      Changed("source", <<<<".">>, <<"s", "i", "t", "e">>, <<"g", "o", "n", "e", ".", "m", "d">>>>, FALSE),
      Changed("theme", <<<<".">>, <<"t", "h", "e", "m", "e">>, <<"p", "a", "g", "e", ".", "h", "t", "m", "l">>>>, TRUE),
      Changed("theme", <<<<".">>, <<"t", "h", "e", "m", "e">>, <<"o", "l", "d", ".", "h", "t", "m", "l">>>>, FALSE),
      Changed("config", <<<<".">>, <<"z", "a", "p", ".", "t", "o", "m", "l">>>>, TRUE),
      Changed("outside", <<<<"n", ".", "t", "x", "t">>>>, TRUE) }

\* Path::components: a "." inside a path is no component.
components(path) == SelectSeq(path.parts, LAMBDA c : c # <<".">>)

\* The path made absolute with every symbolic link resolved.
Resolved(path) ==
    LET absolute == IF path.parts # <<>> /\ path.parts[1] = <<"/">>
                    THEN components(path)
                    ELSE cwd.parts \o components(path)
        linked == { l \in Links : IsPrefix(l.from, absolute) }
    IN  IF linked = {}
        THEN absolute
        ELSE LET l == CHOOSE l \in linked : TRUE
             IN  l.to \o SubSeq(absolute, Len(l.from) + 1, Len(absolute))

\* path.canonicalize().unwrap_or(path.clone()): the resolved absolute path of
\* a path that exists, the path as it is of one that does not.
canonicalize_or(path, exists) ==
    IF exists THEN Path(Resolved(path)) ELSE Path(path.parts)

\* Path::starts_with: component by component.
starts_with(path, base) == IsPrefix(components(base), components(path))

is_source_change(path) ==
    LET abs_path == canonicalize_or(path, path.exists)
        abs_source_dir == canonicalize_or(serve_source_dir, TRUE)
        abs_theme_dir == canonicalize_or(serve_theme_dir, TRUE)
        abs_config_file == canonicalize_or(serve_config_file, TRUE)
    IN  \/ starts_with(abs_path, abs_source_dir)
        \/ starts_with(abs_path, abs_theme_dir)
        \/ components(abs_path) = components(abs_config_file)

\* The calls of build_site_with_livereload that have not returned.
InFlight == { i \in DOMAIN builds : builds[i].stage \in {"build_site", "inject"} }

\* A call of build_site_with_livereload begins.
Called(by) == Append(builds, [by |-> by, stage |-> "build_site"])

\* The caller goes on when its call has returned or panicked: execute returns
\* the error (`?`), the watcher prints it and takes the next path.
Resumed(by, result) ==
    IF by = "execute"
    THEN /\ mainPc' = CASE result = "ok" -> "spawn"
                        [] result = "err" -> "failed"
                        [] OTHER -> "panicked"
         /\ UNCHANGED watcherPc
    ELSE /\ watcherPc' = IF result = "panic" THEN "panicked" ELSE "recv"
         /\ UNCHANGED mainPc

\* A watcher that would take the next path while its build still runs.
Receiving_WhileBuilding(pc) == pc \in {"recv", "building"}

\* `while let Some(path) = rx.recv().await`: the task is at the head of its
\* loop, the body of the iteration before has run to its end.
Receiving(pc) == pc = "recv"

ServeInit ==
    /\ BuilderIdle
    /\ RenderIdle
    /\ NavIdle
    /\ SiteIdle
    /\ ConfigIdle
    /\ ScanIdle
    /\ RendererIdle
    /\ ReloadIdle
    /\ SocketIdle
    /\ InjectIdle
    /\ mainPc = "load"
    /\ watcherPc = "unspawned"
    /\ serverPc = "unspawned"
    /\ rx = <<>>
    /\ builds = <<>>
    /\ taken = <<>>
    /\ sent = 0

\* let zap_config = load_serve_config(args)?; and the call of the initial
\* build.
LoadServeConfig ==
    /\ mainPc = "load"
    /\ \E loaded \in BOOLEAN :
          IF loaded
          THEN /\ mainPc' = "building"
               /\ builds' = Called("execute")
          ELSE /\ mainPc' = "failed"
               /\ UNCHANGED builds
    /\ UNCHANGED <<watcherPc, serverPc, rx, taken, sent>>
    /\ UNCHANGED <<builderVars, renderVars, navVars, siteVars, configVars, scanVars, rendererVars, reloadVars, socketVars, injectVars>>

\* build_site(&config.site, source_dir, output_dir, theme_dir)? inside
\* build_site_with_livereload: it returns Ok or Err, or a page that cannot
\* be read makes it panic.
BuildSite ==
    /\ mainPc \in {"building", "join"}
    /\ \E i \in InFlight :
       \E result \in {"ok", "err", "panic"} :
          /\ builds[i].stage = "build_site"
          /\ IF result = "ok"
             THEN /\ builds' = [builds EXCEPT ![i].stage = "inject"]
                  /\ UNCHANGED <<mainPc, watcherPc>>
             ELSE /\ builds' = [builds EXCEPT ![i].stage = result]
                  /\ Resumed(builds[i].by, result)
    /\ UNCHANGED <<serverPc, rx, taken, sent>>
    /\ UNCHANGED <<builderVars, renderVars, navVars, siteVars, configVars, scanVars, rendererVars, reloadVars, socketVars, injectVars>>

\* inject_livereload_into_html_files(output_dir, livereload_host)? and the
\* return of build_site_with_livereload.
InjectLivereload ==
    /\ mainPc \in {"building", "join"}
    /\ \E i \in InFlight :
       \E result \in {"ok", "err"} :
          /\ builds[i].stage = "inject"
          /\ builds' = [builds EXCEPT ![i].stage = result]
          /\ Resumed(builds[i].by, result)
    /\ UNCHANGED <<serverPc, rx, taken, sent>>
    /\ UNCHANGED <<builderVars, renderVars, navVars, siteVars, configVars, scanVars, rendererVars, reloadVars, socketVars, injectVars>>

\* The two tokio::spawn calls; execute then waits in try_join!.
SpawnTasks ==
    /\ mainPc = "spawn"
    /\ mainPc' = "join"
    /\ serverPc' = "running"
    /\ watcherPc' = "setup"
    /\ UNCHANGED <<rx, builds, taken, sent>>
    /\ UNCHANGED <<builderVars, renderVars, navVars, siteVars, configVars, scanVars, rendererVars, reloadVars, socketVars, injectVars>>

\* watch_source_files up to its loop: the channel, the debouncer and the
\* three watches, each of which may fail (`?`).
WatcherSetup ==
    /\ mainPc = "join"
    /\ watcherPc = "setup"
    /\ \E watching \in BOOLEAN :
          watcherPc' = IF watching THEN "recv" ELSE "failed"
    /\ UNCHANGED <<mainPc, serverPc, rx, builds, taken, sent>>
    /\ UNCHANGED <<builderVars, renderVars, navVars, siteVars, configVars, scanVars, rendererVars, reloadVars, socketVars, injectVars>>

\* The debouncer's callback: tx.blocking_send(event.path), which waits while
\* the channel is full.
DebouncerSends ==
    /\ mainPc = "join"
    /\ watcherPc \in {"recv", "building"}
    /\ sent < MaxChanges
    /\ Len(rx) < ChannelCap
    /\ \E path \in ChangedPaths : rx' = Append(rx, path)
    /\ sent' = sent + 1
    /\ UNCHANGED <<mainPc, watcherPc, serverPc, builds, taken>>
    /\ UNCHANGED <<builderVars, renderVars, navVars, siteVars, configVars, scanVars, rendererVars, reloadVars, socketVars, injectVars>>

\* One turn of the watcher's loop up to the call of the build: a path is
\* received; one that is no source change is skipped.
Receive ==
    /\ mainPc = "join"
    /\ Receiving(watcherPc)
    /\ rx # <<>>
    /\ rx' = Tail(rx)
    /\ taken' = Append(taken, [path |-> Head(rx),
                                during |-> InFlight,
                                called |-> is_source_change(Head(rx))])
    /\ IF is_source_change(Head(rx))
       THEN /\ builds' = Called("watcher")
            /\ watcherPc' = "building"
       ELSE UNCHANGED <<builds, watcherPc>>
    /\ UNCHANGED <<mainPc, serverPc, sent>>
    /\ UNCHANGED <<builderVars, renderVars, navVars, siteVars, configVars, scanVars, rendererVars, reloadVars, socketVars, injectVars>>

\* server.run() returns an error, which its task prints.
ServerStops ==
    /\ mainPc = "join"
    /\ serverPc = "running"
    /\ serverPc' = "stopped"
    /\ UNCHANGED <<mainPc, watcherPc, rx, builds, taken, sent>>
    /\ UNCHANGED <<builderVars, renderVars, navVars, siteVars, configVars, scanVars, rendererVars, reloadVars, socketVars, injectVars>>

\* tokio::try_join!(server_handle, watcher_handle)?: both tasks have ended,
\* or one has panicked.
Join ==
    /\ mainPc = "join"
    /\ \/ watcherPc = "panicked"
       \/ watcherPc = "failed" /\ serverPc = "stopped"
    /\ mainPc' = IF watcherPc = "panicked" THEN "failed" ELSE "returned"
    /\ UNCHANGED <<watcherPc, serverPc, rx, builds, taken, sent>>
    /\ UNCHANGED <<builderVars, renderVars, navVars, siteVars, configVars, scanVars, rendererVars, reloadVars, socketVars, injectVars>>

ServeNext ==
    \/ LoadServeConfig
    \/ BuildSite
    \/ InjectLivereload
    \/ SpawnTasks
    \/ WatcherSetup
    \/ DebouncerSends
    \/ Receive
    \/ ServerStops
    \/ Join

SpecServe == ServeInit /\ [][ServeNext]_vars

\* C25: in the serve command at most one call of build_site_with_livereload
\* is in flight at any time.  The watcher is not spawned before the initial
\* build has returned Ok, and every path the watcher has received was taken
\* from the channel while no call was in flight: the build a path starts has
\* run to its end, with or without an error, before the next path is taken.
C25_OneBuildInFlight ==
    /\ Cardinality(InFlight) <= 1
    /\ watcherPc # "unspawned" =>
          /\ builds # <<>>
          /\ builds[1] = [by |-> "execute", stage |-> "ok"]
    /\ \A i \in DOMAIN taken : taken[i].during = {}
    /\ \A i \in DOMAIN builds :
          builds[i].by = "watcher" /\ i \in InFlight => watcherPc = "building"

\* The watcher is rebuilding for the second time, after a rebuild that
\* failed, while a further change waits in the channel.
C25_Witness ==
    /\ Len(taken) = 2
    /\ Len(builds) = 3
    /\ builds[2] = [by |-> "watcher", stage |-> "err"]
    /\ builds[3] = [by |-> "watcher", stage |-> "inject"]
    /\ rx # <<>>

\* --------------------------------------- ZapConfig::load: zap-cli/src/config.rs
\*
\* load layers four sources with the config crate, the later over the
\* earlier: the defaults, the configuration file, the ZAP_* environment
\* variables and the values it reads from the command line.  A value of a
\* layer is a string ([s |-> ..]), an integer ([u |-> ..]) or a boolean
\* ([b |-> ..]); deserialisation turns it into the type of its field.

\* The settings the three sources make between them.
MaxSettings == 3

\* The fields of BuildConfig.
Keys == {"source", "output", "theme", "config", "host", "port", "open"}

DecimalDigits == <<"0", "1", "2", "3", "4", "5", "6", "7", "8", "9">>

DigitValue(c) == (CHOOSE i \in 1..10 : DecimalDigits[i] = c) - 1

RECURSIVE DecimalValue(_)
DecimalValue(s) ==
    IF s = <<>> THEN 0 ELSE 10 * DecimalValue(Front(s)) + DigitValue(Last(s))

\* str::parse::<u16>: decimal digits after an optional "+", at most 65535.
parse_u16(s) ==
    LET digits == IF s # <<>> /\ s[1] = "+" THEN Tail(s) ELSE s
    IN  IF \/ digits = <<>>
           \/ \E i \in 1..Len(digits) : digits[i] \notin DigitChars
           \/ DecimalValue(digits) > 65535
        THEN None
        ELSE Some(DecimalValue(digits))

\* u16::to_string.
RECURSIVE to_string(_)
to_string(num) ==
    IF num < 10
    THEN <<DecimalDigits[num + 1]>>
    ELSE to_string(num \div 10) \o <<DecimalDigits[(num % 10) + 1]>>

\* impl Default for BuildConfig, serialised as the lowest layer.
BuildConfigDefault ==
    [source |-> [s |-> <<".", "/", "s", "i", "t", "e">>],
     output |-> [s |-> <<".", "/", "o", "u", "t">>],
     theme |-> [s |-> <<".", "/", "t", "h", "e", "m", "e">>],
     config |-> [s |-> <<".", "/", "z", "a", "p", ".", "t", "o", "m", "l">>],
     host |-> [s |-> <<"1", "2", "7", ".", "0", ".", "0", ".", "1">>],
     port |-> [u |-> 3000],
     open |-> [b |-> FALSE]]

\* The commands load is given the matches of: the build and the serve
\* subcommand, and the command test_cli_args_override makes.
Commands == {"build", "serve", "test"}

\* The arguments a command defines.
Defined(command) ==
    CASE command = "build" -> {"source", "output", "theme", "config"}
      [] command = "serve" -> Keys
      [] command = "test" -> {"source", "output", "config"}

\* The default_value of the arguments of a command that have one.
DefaultValues(command) ==
    LET dirs == [source |-> <<".", "/", "s", "i", "t", "e">>, output |-> <<".", "/", "o", "u", "t">>,
                 theme |-> <<".", "/", "t", "h", "e", "m", "e">>, config |-> <<".", "/", "z", "a", "p", ".", "t", "o", "m", "l">>]
    IN  CASE command = "build" -> dirs
          [] command = "serve" ->
                dirs @@ [port |-> <<"3", "0", "0", "0">>, host |-> <<"1", "2", "7", ".", "0", ".", "0", ".", "1">>]
          [] command = "test" -> <<>>

\* ArgMatches::try_get_one::<String>(id).unwrap_or(None): the value given on
\* the command line, else the argument's default_value, else None; None too
\* for an argument the command does not define.
try_get_one_or_none(matches, id) ==
    CASE id \notin Defined(matches.command) -> None
      [] id \in DOMAIN matches.given -> Some(matches.given[id])
      [] id \in DOMAIN DefaultValues(matches.command) ->
            Some(DefaultValues(matches.command)[id])
      [] OTHER -> None

\* ArgMatches::get_one::<String>(id), for an argument the command defines or
\* in a build of clap that does not check the id.
get_one(matches, id) == try_get_one_or_none(matches, id)

\* get_one panics on an id the command does not define where clap checks it
\* (debug_assertions).
GetOnePanics(matches) ==
    /\ matches.debug_assertions
    /\ \E id \in {"config", "source", "output", "theme"} :
          id \notin Defined(matches.command)

\* The later layer over the earlier one.
Override(base, over) ==
    [k \in DOMAIN base \cup DOMAIN over |->
        IF k \in DOMAIN over THEN over[k] ELSE base[k]]

\* The layer of one key.
Entry(k, v) == [x \in {k} |-> v]

NoLayer == [x \in {} |-> None]

\* The HashMap load fills from the command line.
cli_overrides(matches) ==
    LET string(id) ==
            IF get_one(matches, id) # None
            THEN Entry(id, [s |-> get_one(matches, id)[1]])
            ELSE NoLayer
        tried(id) ==
            IF try_get_one_or_none(matches, id) # None
            THEN Entry(id, [s |-> try_get_one_or_none(matches, id)[1]])
            ELSE NoLayer
        port == try_get_one_or_none(matches, "port")
        open == IF "open" \in Defined(matches.command)
                THEN "open" \in DOMAIN matches.given
                ELSE FALSE
    IN  string("source") @@ string("output") @@ string("theme")
        @@ string("config") @@ tried("host")
        @@ (IF port # None /\ parse_u16(port[1]) # None
            THEN Entry("port", [s |-> to_string(parse_u16(port[1])[1])])
            ELSE NoLayer)
        @@ (IF open THEN Entry("open", [s |-> <<"t", "r", "u", "e">>]) ELSE NoLayer)

\* try_deserialize for one field: None where the value has not its type.
Deserialize(k, v) ==
    CASE k = "port" ->
            IF "u" \in DOMAIN v THEN Some(v.u)
            ELSE IF "s" \in DOMAIN v THEN parse_u16(v.s)
            ELSE None
      [] k = "open" ->
            IF "b" \in DOMAIN v THEN Some(v.b)
            ELSE IF "s" \in DOMAIN v /\ v.s \in {<<"t", "r", "u", "e">>, <<"f", "a", "l", "s", "e">>}
            THEN Some(v.s = <<"t", "r", "u", "e">>)
            ELSE None
      [] OTHER ->
            IF "s" \in DOMAIN v THEN Some(v.s) ELSE None

load(matches, environment, config_file) ==
    IF GetOnePanics(matches)
    THEN [result |-> "panic"]
    ELSE LET merged ==
                 Override(Override(Override(BuildConfigDefault, config_file),
                                   environment),
                          cli_overrides(matches))
         IN  IF \E k \in Keys : Deserialize(k, merged[k]) = None
             THEN [result |-> "Err"]
             ELSE [result |-> "Ok",
                   build |-> [k \in Keys |-> Deserialize(k, merged[k])[1]]]

\* What the three sources can set a key to.
Setting(from, key, val) == [from |-> from, key |-> key, val |-> val]

SettingPool ==
    { Setting("cli", k, <<"/", "c", "l", "i">>) : k \in {"source", "output", "theme", "config", "host"} }
    \cup { Setting("cli", "port", p) : p \in {<<"8", "0", "8", "0">>, <<"+", "8", "0">>, <<"7", "0", "0", "0", "0">>, <<"x">>} }
    \cup { Setting("cli", "open", TRUE) }
    \cup { Setting("env", k, [s |-> <<"/", "e", "n", "v">>]) : k \in {"source", "output", "theme", "config", "host"} }
    \cup { Setting("env", "port", [s |-> p]) : p \in {<<"8", "0", "8", "1">>, <<"x">>} }
    \cup { Setting("env", "open", [s |-> b]) : b \in {<<"t", "r", "u", "e">>, <<"f", "a", "l", "s", "e">>} }
    \cup { Setting("file", k, [s |-> <<"/", "f", "i", "l", "e">>]) : k \in {"source", "output", "theme", "config", "host"} }
    \cup { Setting("file", "port", [u |-> 8082]) }
    \cup { Setting("file", "open", [b |-> b]) : b \in BOOLEAN }

RECURSIVE SubsetsUpTo(_, _)
SubsetsUpTo(S, k) ==
    IF k = 0
    THEN {{}}
    ELSE LET smaller == SubsetsUpTo(S, k - 1)
         IN  smaller \cup { T \cup {x} : T \in smaller, x \in S }

\* The settings one source makes, as a layer; no source sets a key twice.
LayerOf(settings, from) ==
    LET mine == { x \in settings : x.from = from }
    IN  [k \in { x.key : x \in mine } |->
            (CHOOSE x \in mine : x.key = k).val]

ConfigInit ==
    /\ BuilderIdle
    /\ RenderIdle
    /\ NavIdle
    /\ SiteIdle
    /\ ServeIdle
    /\ ScanIdle
    /\ RendererIdle
    /\ ReloadIdle
    /\ SocketIdle
    /\ InjectIdle
    /\ \E settings \in SubsetsUpTo(SettingPool, MaxSettings) :
       \E command \in Commands :
       \E debug_assertions \in BOOLEAN :
          /\ \A x, y \in settings : x.from = y.from /\ x.key = y.key => x = y
          /\ \A x \in settings : x.from = "cli" => x.key \in Defined(command)
          /\ args = [command |-> command,
                     given |-> LayerOf(settings, "cli"),
                     debug_assertions |-> debug_assertions]
          /\ env = LayerOf(settings, "env")
          /\ file = LayerOf(settings, "file")
    /\ zap_config = None

\* ZapConfig::load(args).
Load ==
    /\ args # <<>>
    /\ zap_config = None
    /\ zap_config' = Some(load(args, env, file))
    /\ UNCHANGED <<args, env, file>>
    /\ UNCHANGED <<builderVars, renderVars, navVars, siteVars, serveVars, scanVars, rendererVars, reloadVars, socketVars, injectVars>>

ConfigNext == Load

SpecConfig == ConfigInit /\ [][ConfigNext]_vars

\* The value of a key in the highest of the sources that set it: the command
\* line where the key is given on it, else the environment, else the file,
\* else the default.
HighestSet(k) ==
    CASE k \in DOMAIN args.given ->
            IF k = "open" THEN [b |-> TRUE] ELSE [s |-> args.given[k]]
      [] k \in DOMAIN env -> env[k]
      [] k \in DOMAIN file -> file[k]
      [] OTHER -> BuildConfigDefault[k]

\* C26: when load returns for sources whose values all have the type of
\* their key, it returns Ok, and the resolved value of every build key is
\* the value of the highest-priority source that sets the key (command line
\* over ZAP_* environment over configuration file), the default where no
\* source sets it.
C26_CascadingPrecedence ==
    /\ zap_config # None
    /\ zap_config[1].result # "panic"
    /\ \A k \in Keys : Deserialize(k, HighestSet(k)) # None
    => /\ zap_config[1].result = "Ok"
       /\ \A k \in Keys :
             zap_config[1].build[k] = Deserialize(k, HighestSet(k))[1]

\* ------------------------------------- SiteScanner: zap-core/src/scanner.rs
\*
\* scan lists the source directory twice: scan_pages makes a page of every
\* markdown file in it, scan_collections a collection of every directory in
\* it, with a page for every markdown file at any depth below.  A file is the
\* sequence of names from the source directory to it; read_dir and WalkDir
\* list a directory in no particular order.

\* The files under the source directory.
MaxFiles == 3

FilePool ==
    { <<<<"R", "E", "A", "D", "M", "E", ".", "m", "d">>>>, <<<<"i", "n", "d", "e", "x", ".", "m", "d">>>>, <<<<"a", ".", "m", "d">>>>, <<<<"C", "h", "a", "n", "g", "e", "l", "o", "g", ".", "m", "d">>>>,
      <<<<"n", ".", "t", "x", "t">>>>, <<<<".", "m", "d">>>>, <<<<"B", ".", "M", "D">>>>,
      <<<<"a">>, <<"i", "n", "d", "e", "x", ".", "m", "d">>>>, <<<<"a">>, <<"R", "e", "a", "d", "m", "e", ".", "m", "d">>>>,
      <<<<"a">>, <<"b">>, <<"c", ".", "m", "d">>>>, <<<<"a">>, <<"t", ".", "t", "x", "t">>>>,
      <<<<"c", "h", "a", "n", "g", "e", "l", "o", "g">>, <<"i", "n", "d", "e", "x", ".", "m", "d">>>> }

\* Directories that may be there with no file below them.
DirPool == { <<<<"e">>>>, <<<<"x", ".", "m", "d">>>> }

\* The directories above a file.
ParentsOf(f) == { SubSeq(f, 1, k) : k \in 1..(Len(f) - 1) }

\* Path::file_name.
file_name(path) == Last(path)

\* Path::extension: what follows the last "." of the file name, None if the
\* name has no "." or only begins with one.
extension(path) ==
    LET name == file_name(path)
    IN  IF LastDot(name) <= 1
        THEN None
        ELSE Some(SubSeq(name, LastDot(name) + 1, Len(name)))

get_extension(path) ==
    IF extension(path) = None THEN <<"U", "n", "k", "n", "o", "w", "n">> ELSE extension(path)[1]

\* str::to_lowercase.
to_lowercase(s) == [i \in 1..Len(s) |-> ToLower(s[i])]

\* A scan_page that would tell the roles by the file name as it is written.
page_type_of_CaseSensitive(name) ==
    CASE name = <<"r", "e", "a", "d", "m", "e", ".", "m", "d">> -> "Home"
      [] name = <<"c", "h", "a", "n", "g", "e", "l", "o", "g", ".", "m", "d">> -> "Changelog"
      [] name = <<"i", "n", "d", "e", "x", ".", "m", "d">> -> "Index"
      [] OTHER -> "Regular"

\* The match of scan_page on a file name.
page_type_of(name) == page_type_of_CaseSensitive(to_lowercase(name))

\* scan_page of a file below the source directory: its path relative to the
\* source directory, and its role.  The files of this model have no content,
\* so get_page_title finds no heading.
scan_page(path) ==
    [title |-> <<"A", " ", "s", "a", "d", " ", "p", "a", "g", "e">>,
     path |-> Path(path),
     page_type |-> page_type_of(file_name(path))]

\* The entries read_dir lists for the source directory.
RootFiles == { f \in tree.files : Len(f) = 1 }

RootDirs == { d \in tree.dirs : Len(d) = 1 }

\* get_all_markdown_files: the files WalkDir finds below a directory whose
\* extension is "md".
get_all_markdown_files(dir) ==
    { f \in tree.files : /\ Len(f) > Len(dir)
                         /\ SubSeq(f, 1, Len(dir)) = dir
                         /\ extension(f) = Some(<<"m", "d">>) }

\* The orders in which a directory's entries can be listed.
Orders(S) ==
    { s \in [1..Cardinality(S) -> S] :
        \A i, j \in 1..Cardinality(S) : s[i] = s[j] => i = j }

\* scan_collection of each directory of a listing.
RECURSIVE CollectionsOf(_)
CollectionsOf(listing) ==
    IF listing = <<>>
    THEN {<<>>}
    ELSE { <<[name |-> file_name(Head(listing)),
              pages |-> [i \in 1..Len(found) |-> scan_page(found[i])]]>> \o rest :
             found \in Orders(get_all_markdown_files(Head(listing))),
             rest \in CollectionsOf(Tail(listing)) }

ScanInit ==
    /\ BuilderIdle
    /\ RenderIdle
    /\ NavIdle
    /\ SiteIdle
    /\ ServeIdle
    /\ ConfigIdle
    /\ RendererIdle
    /\ ReloadIdle
    /\ SocketIdle
    /\ InjectIdle
    /\ \E files \in SubsetsUpTo(FilePool, MaxFiles) :
       \E empty \in SUBSET DirPool :
          tree = [files |-> files,
                  dirs |-> empty \cup UNION { ParentsOf(f) : f \in files }]
    /\ scan = [pc |-> "start", pages |-> <<>>, collections |-> <<>>]

\* let pages = self.scan_pages()?
ScanPages ==
    /\ scan # <<>>
    /\ scan.pc = "start"
    /\ \/ scan' = [scan EXCEPT !.pc = "IoError"]
       \/ \E listing \in Orders({ f \in RootFiles : get_extension(f) = <<"m", "d">> }) :
             scan' = [scan EXCEPT
                         !.pc = "pages",
                         !.pages = [i \in 1..Len(listing) |-> scan_page(listing[i])]]
    /\ UNCHANGED tree
    /\ UNCHANGED <<builderVars, renderVars, navVars, siteVars, serveVars, configVars, rendererVars, reloadVars, socketVars, injectVars>>

\* let collections = self.scan_collections()?; Ok((pages, collections))
ScanCollections ==
    /\ scan # <<>>
    /\ scan.pc = "pages"
    /\ \/ scan' = [scan EXCEPT !.pc = "IoError"]
       \/ \E listing \in Orders(RootDirs) :
          \E collections \in CollectionsOf(listing) :
             scan' = [scan EXCEPT !.pc = "Ok", !.collections = collections]
    /\ UNCHANGED tree
    /\ UNCHANGED <<builderVars, renderVars, navVars, siteVars, serveVars, configVars, rendererVars, reloadVars, socketVars, injectVars>>

ScanNext == ScanPages \/ ScanCollections

SpecScan == ScanInit /\ [][ScanNext]_vars

\* ------------------------------------------------------ claims on the scanner

Scanned == scan # <<>> /\ scan.pc = "Ok"

\* A file whose name ends in ".md" after a stem.
IsMarkdownFile(f) ==
    /\ Len(Last(f)) > 3
    /\ SubSeq(Last(f), Len(Last(f)) - 2, Len(Last(f))) = <<".", "m", "d">>

\* The role claim C32 gives a file name.
RoleOf(name) ==
    LET lower == to_lowercase(name)
    IN  IF lower = <<"r", "e", "a", "d", "m", "e", ".", "m", "d">> THEN "Home"
        ELSE IF lower = <<"c", "h", "a", "n", "g", "e", "l", "o", "g", ".", "m", "d">> THEN "Changelog"
        ELSE IF lower = <<"i", "n", "d", "e", "x", ".", "m", "d">> THEN "Index"
        ELSE "Regular"

\* The pages of a sequence are one page for each file of a set, each with
\* the role of its file name.
PagesAre(pages, files) ==
    /\ Len(pages) = Cardinality(files)
    /\ { pages[i].path.parts : i \in 1..Len(pages) } = files
    /\ \A i \in 1..Len(pages) :
          pages[i].page_type = RoleOf(Last(pages[i].path.parts))

\* C32: a finished scan partitions the markdown files: the top-level pages are
\* one page for each .md file directly in the source directory, the
\* collections are one collection for each directory directly in it, and a
\* collection's pages are one page for each .md file at any depth below its
\* directory; every page has the role its lower-cased file name decides.
C32_ScanPartitions ==
    Scanned =>
       /\ PagesAre(scan.pages, { f \in tree.files : Len(f) = 1 /\ IsMarkdownFile(f) })
       /\ Len(scan.collections) = Cardinality({ d \in tree.dirs : Len(d) = 1 })
       /\ { <<scan.collections[c].name>> : c \in 1..Len(scan.collections) }
          = { d \in tree.dirs : Len(d) = 1 }
       /\ \A c \in 1..Len(scan.collections) :
             PagesAre(scan.collections[c].pages,
                      { f \in tree.files : /\ Len(f) > 1
                                           /\ f[1] = scan.collections[c].name
                                           /\ IsMarkdownFile(f) })

\* C32 witness: a scan that found a home page written in capitals beside a
\* file that is no page, and a collection with a page two levels down.
C32_Witness ==
    /\ Scanned
    /\ <<<<"B", ".", "M", "D">>>> \in tree.files
    /\ Len(scan.pages) = 1
    /\ scan.pages[1].page_type = "Home"
    /\ Len(scan.collections) = 1
    /\ Len(scan.collections[1].pages) = 1
    /\ Len(scan.collections[1].pages[1].path.parts) = 3

\* Every page of a finished scan, by where it is: (0, i) for a top-level
\* page, (c, i) for a page of collection c.
ScannedPages ==
    { <<0, i>> : i \in 1..Len(scan.pages) }
    \cup UNION { { <<c, i>> : i \in 1..Len(scan.collections[c].pages) }
                 : c \in 1..Len(scan.collections) }

ScannedPage(at_) ==
    IF at_[1] = 0 THEN scan.pages[at_[2]] ELSE scan.collections[at_[1]].pages[at_[2]]

\* C31: page_out_path gives distinct pages of a finished scan distinct output
\* paths, top-level pages and the pages of all collections taken together.
C31_DistinctOutPaths ==
    Scanned =>
       \A p, q \in ScannedPages :
          p # q => page_out_path(ScannedPage(p)) # page_out_path(ScannedPage(q))

\* ---------------------------------------- Renderer: zap-core/src/renderer.rs
\*
\* A RenderContext is a tera::Context: a map from keys to values.  The
\* builder sets the Renderer's global context and moves the Renderer into the
\* Site; from then on it is only rendered with.

\* The render calls made on one Renderer.
MaxRenders == 2

\* The keys the builder sets, "home" standing for a custom key that a page
\* context sets as well.
GlobalKeys == {"site", "has_changelog", "home"}

GlobalValues == {"g", "h"}

\* The page contexts render is given.
PageContexts ==
    { [x \in {} |-> "p"],
      [page_content |-> "p"],
      [page_content |-> "q", home |-> "p"],
      [page_content |-> "p", releases |-> "r"],
      [site |-> "p", has_changelog |-> "p", home |-> "p"] }

\* The templates Tera has loaded from the theme, and one it has not.
Templates == {"page.html", "home.html"}

TemplateNames == Templates \cup {"missing.html"}

\* tera::Context::insert.
insert(context, key, value) ==
    [k \in DOMAIN context \cup {key} |-> IF k = key THEN value ELSE context[k]]

\* tera::Context::extend: every entry of `other` is put into the context.
extend(context, other) ==
    [k \in DOMAIN context \cup DOMAIN other |->
        IF k \in DOMAIN other THEN other[k] ELSE context[k]]

\* RenderContext::merge.
merge(self, other) == extend(self, other)

\* TemplateRenderer::render_with_context: the page Tera makes of a template
\* it has and the context, an error for a template it has not.
render_with_context(template, context) ==
    IF template \in Templates
    THEN [result |-> "Ok", template |-> template, context |-> context]
    ELSE [result |-> "Err"]

\* A render that would merge the page context into the global context
\* itself.
render_InPlace(self, template, page_context) ==
    LET merged == merge(self.global_context, page_context)
    IN  [self |-> [self EXCEPT !.global_context = merged],
         merged |-> merged,
         returned |-> render_with_context(template, merged)]

\* Renderer::render: what it leaves of the Renderer (it takes &self), the
\* context it hands to the templates, and what it returns.
render(self, template, page_context) ==
    LET merged == merge(self.global_context, page_context)
    IN  [self |-> self,
         merged |-> merged,
         returned |-> render_with_context(template, merged)]

RendererInit ==
    /\ BuilderIdle
    /\ RenderIdle
    /\ NavIdle
    /\ SiteIdle
    /\ ServeIdle
    /\ ConfigIdle
    /\ ScanIdle
    /\ ReloadIdle
    /\ SocketIdle
    /\ InjectIdle
    /\ renderer = [global_context |-> [x \in {} |-> "g"], in_site |-> FALSE]
    /\ renders = <<>>

\* Renderer::set_global_context, called by the builder.
SetGlobalContext ==
    /\ renderer # <<>>
    /\ ~renderer.in_site
    /\ \E key \in GlobalKeys :
       \E value \in GlobalValues :
          renderer' = [renderer EXCEPT
                          !.global_context = insert(@, key, value)]
    /\ UNCHANGED renders
    /\ UNCHANGED <<builderVars, renderVars, navVars, siteVars, serveVars, configVars, scanVars, reloadVars, socketVars, injectVars>>

\* Ok(Site { renderer, .. }): the Renderer is moved into the Site.
BuildSiteValue ==
    /\ renderer # <<>>
    /\ ~renderer.in_site
    /\ renderer' = [renderer EXCEPT !.in_site = TRUE]
    /\ UNCHANGED renders
    /\ UNCHANGED <<builderVars, renderVars, navVars, siteVars, serveVars, configVars, scanVars, reloadVars, socketVars, injectVars>>

\* self.renderer.render(template, &context) for one page.
RendererRender ==
    /\ renderer # <<>>
    /\ renderer.in_site
    /\ Len(renders) < MaxRenders
    /\ \E template \in TemplateNames :
       \E page_context \in PageContexts :
          LET call == render(renderer, template, page_context)
          IN  /\ renderer' = call.self
              /\ renders' = Append(renders,
                                   [before |-> renderer.global_context,
                                    template |-> template,
                                    page_context |-> page_context,
                                    merged |-> call.merged,
                                    returned |-> call.returned,
                                    after |-> call.self.global_context])
    /\ UNCHANGED <<builderVars, renderVars, navVars, siteVars, serveVars, configVars, scanVars, reloadVars, socketVars, injectVars>>

RendererNext == SetGlobalContext \/ BuildSiteValue \/ RendererRender

SpecRenderer == RendererInit /\ [][RendererNext]_vars

\* C33: every render hands the templates a context that holds exactly the
\* keys of the global and of the page context, with the page's value for a
\* key of the page context and the global value for any other; a render
\* leaves the global context as it was, so every render of a sequence sees
\* the global values the first one saw and no key of an earlier page.
C33_MergeLeavesGlobal ==
    \A i \in DOMAIN renders :
       LET r == renders[i]
       IN  /\ DOMAIN r.merged = DOMAIN r.before \cup DOMAIN r.page_context
           /\ \A k \in DOMAIN r.page_context : r.merged[k] = r.page_context[k]
           /\ \A k \in DOMAIN r.before \ DOMAIN r.page_context :
                 r.merged[k] = r.before[k]
           /\ r.after = r.before
           /\ r.before = renders[1].before
           /\ r.returned.result = "Ok" =>
                 r.returned.context = r.merged /\ r.returned.template = r.template

\* C33 witness: after the render of a page that set "home" and
\* "page_content", a second page that sets only "page_content" was rendered
\* and saw the global "home".
C33_Witness ==
    /\ Len(renders) = 2
    /\ renders[1].page_context = [page_content |-> "q", home |-> "p"]
    /\ renders[1].before = [site |-> "g", home |-> "h"]
    /\ renders[1].merged = [site |-> "g", home |-> "p", page_content |-> "q"]
    /\ renders[2].page_context = [page_content |-> "p"]
    /\ renders[2].merged = [site |-> "g", home |-> "h", page_content |-> "p"]
    /\ renders[2].returned.result = "Ok"

\* ------------------------------------ File watcher: zap-dev-server/src/lib.rs
\*
\* start_file_watcher watches the served directory through a debouncer, whose
\* callback sends the paths that changed on a channel, and broadcasts "reload"
\* for the paths it receives.  Time is counted in ms from the start of
\* LiveServer::run and advances by the debouncer's period.

\* The debouncer's period: Duration::from_millis(500).
DebounceMs == 500

\* The window of the deduplication: Duration::from_millis(1000).
ReloadWindowMs == 1000

\* The last time the clock shows.
MaxClock == 3000

\* The paths the debouncer reports in one run.
MaxOutputChanges == 3

\* The capacity of the file watcher's channel, 100 in the code.
WatchChannelCap == 2

\* LiveServerConfig::ignore as serve::execute sets it.
ignore == << <<".", "g", "i", "t">>, <<"*", ".", "t", "m", "p">> >>

\* The paths under the served directory that the debouncer reports.
OutputPaths ==
    { <<"o", "u", "t", "/", "i", "n", "d", "e", "x", ".", "h", "t", "m", "l">>, <<"o", "u", "t", "/", "a", ".", "t", "m", "p">>, <<"o", "u", "t", "/", ".", "g", "i", "t", "/", "H", "E", "A", "D">>, <<"o", "u", "t", "/", "x", "*", ".", "t", "m", "p">> }

\* str::contains.
contains(s, pattern) ==
    \E i \in 1..(Len(s) + 1) :
        /\ i + Len(pattern) - 1 <= Len(s)
        /\ SubSeq(s, i, i + Len(pattern) - 1) = pattern

\* The callback's should_ignore.
should_ignore(path_str, ignore_patterns) ==
    \E i \in DOMAIN ignore_patterns : contains(path_str, ignore_patterns[i])

\* A test that would let a reload through at the end of the window.
enough_time_has_passed_AtWindowEnd(now, last_reload) ==
    now - last_reload >= ReloadWindowMs

\* The test of the loop: now.duration_since(last_reload) > 1000 ms.
enough_time_has_passed(now, last_reload) ==
    now - last_reload > ReloadWindowMs

ReloadInit ==
    /\ BuilderIdle
    /\ RenderIdle
    /\ NavIdle
    /\ SiteIdle
    /\ ServeIdle
    /\ ConfigIdle
    /\ ScanIdle
    /\ RendererIdle
    /\ SocketIdle
    /\ InjectIdle
    /\ clock = 0
    /\ watcher = [pc |-> "spawned", started |-> None, last_reload |-> None]
    /\ changed = <<>>
    /\ handled = <<>>
    /\ changedAt = None

\* Time passes.
Tick ==
    /\ watcher # <<>>
    /\ clock + DebounceMs <= MaxClock
    /\ clock' = clock + DebounceMs
    /\ UNCHANGED <<watcher, changed, handled, changedAt>>
    /\ UNCHANGED <<builderVars, renderVars, navVars, siteVars, serveVars,
                   configVars, scanVars, rendererVars, socketVars, injectVars>>

\* start_file_watcher up to its loop: the debouncer is made and the root
\* directory is watched, or one of the two fails and the function returns
\* the error.
StartFileWatcher ==
    /\ watcher # <<>>
    /\ watcher.pc = "spawned"
    /\ \/ watcher' = [pc |-> "recv", started |-> Some(clock),
                      last_reload |-> Some(clock)]
       \/ watcher' = [watcher EXCEPT !.pc = "err"]
    /\ UNCHANGED <<clock, changed, handled, changedAt>>
    /\ UNCHANGED <<builderVars, renderVars, navVars, siteVars, serveVars,
                   configVars, scanVars, rendererVars, socketVars, injectVars>>

\* The debouncer's callback for one event: a path that is not ignored is
\* sent on the channel, which blocks while the channel is full.
OutputChanges ==
    /\ watcher # <<>>
    /\ watcher.pc = "recv"
    /\ Len(handled) + Len(changed) < MaxOutputChanges
    /\ \E path \in OutputPaths :
          IF should_ignore(path, ignore)
          THEN UNCHANGED <<changed, changedAt>>
          ELSE /\ Len(changed) < WatchChannelCap
               /\ changed' = Append(changed, path)
               /\ changedAt' = Some(clock)
    /\ UNCHANGED <<clock, watcher, handled>>
    /\ UNCHANGED <<builderVars, renderVars, navVars, siteVars, serveVars,
                   configVars, scanVars, rendererVars, socketVars, injectVars>>

\* One turn of the loop: a path is received and "reload" is broadcast, or
\* not.
HandleChange ==
    /\ watcher # <<>>
    /\ watcher.pc = "recv"
    /\ changed # <<>>
    /\ LET now         == clock
           last_reload == watcher.last_reload[1]
           send        == enough_time_has_passed(now, last_reload)
           after       == IF send THEN now ELSE last_reload
       IN  /\ watcher' = [watcher EXCEPT !.last_reload = Some(after)]
           /\ handled' = Append(handled,
                  [path |-> Head(changed), now |-> now,
                   before |-> last_reload, after |-> after,
                   sent |-> send])
    /\ changed' = Tail(changed)
    /\ UNCHANGED <<clock, changedAt>>
    /\ UNCHANGED <<builderVars, renderVars, navVars, siteVars, serveVars,
                   configVars, scanVars, rendererVars, socketVars, injectVars>>

ReloadNext ==
    \/ Tick
    \/ StartFileWatcher
    \/ OutputChanges
    \/ HandleChange

SpecReload == ReloadInit /\ [][ReloadNext]_vars

\* The tokio runtime runs the watcher's task whenever a path waits on its
\* channel.
SpecReloadFair == SpecReload /\ WF_vars(HandleChange)

\* C35: "reload" is broadcast for a received path exactly when more than
\* 1000 ms have passed since the last broadcast, or since the watcher
\* started when there was none; a broadcast sets last_reload to its time and
\* a path that broadcasts nothing leaves last_reload as it was; so any two
\* broadcasts are more than 1000 ms apart, and no ignored path is received.
C35_ReloadsApart ==
    /\ \A i \in DOMAIN handled :
          LET h == handled[i]
          IN  /\ h.sent <=> h.now - h.before > 1000
              /\ h.after = IF h.sent THEN h.now ELSE h.before
              /\ h.before = IF i = 1 THEN watcher.started[1]
                                     ELSE handled[i - 1].after
              /\ h.sent => h.now - watcher.started[1] > 1000
              /\ ~ should_ignore(h.path, ignore)
    /\ \A i, j \in DOMAIN handled :
          (i < j /\ handled[i].sent /\ handled[j].sent)
             => handled[j].now - handled[i].now > 1000
    /\ handled # <<>> => watcher.last_reload = Some(Last(handled).after)

\* C35 witness: a path broadcast "reload", the next one came exactly 1000 ms
\* later and broadcast nothing, and the one after it broadcast again.
C35_Witness ==
    /\ Len(handled) = 3
    /\ handled[1].sent
    /\ ~ handled[2].sent
    /\ handled[2].now - handled[1].now = 1000
    /\ handled[2].after = handled[1].now
    /\ handled[3].sent

\* A path was sent on the channel and no "reload" has been broadcast at or
\* after the time of the last one.
Unreloaded ==
    /\ changedAt # None
    /\ ~ \E i \in DOMAIN handled :
            handled[i].sent /\ handled[i].now >= changedAt[1]

\* C36: every change of the served directory that is not ignored is
\* eventually followed by a "reload" broadcast at or after it.
C36_ChangeEventuallyReloaded == Unreloaded ~> ~ Unreloaded
\* ------------------------------- Live reload socket: zap-dev-server/src/lib.rs
\*
\* LiveServer::run makes one broadcast channel; the file watcher sends
\* "reload" on it and every websocket connection subscribes to it.  A message
\* of the channel has a position, the number of messages accepted before it;
\* the channel keeps the last `capacity` messages.

\* The send calls made on the broadcast channel in one run.
MaxBroadcasts == 3

\* The capacity of the broadcast channel, 100 in the code.
BroadcastCap == 2

\* The websocket connections of one run.
Conns == {"a", "b"}

\* broadcast::channel.
channel(capacity) ==
    [capacity |-> capacity, pos |-> 0, buffer |-> <<>>, rx_cnt |-> 0,
     sends |-> 0]

\* broadcast::Sender::send: an error when there is no receiver; else the
\* message takes the next position, and the oldest one kept gives way when
\* the channel is full.  `sends` counts the calls.
broadcast_send(chan, msg) ==
    IF chan.rx_cnt = 0
    THEN [chan EXCEPT !.sends = @ + 1]
    ELSE LET all == Append(chan.buffer, [pos |-> chan.pos, msg |-> msg])
         IN  [chan EXCEPT
                 !.sends = @ + 1,
                 !.pos = @ + 1,
                 !.buffer = IF Len(all) > chan.capacity THEN Tail(all)
                                                        ELSE all]

\* broadcast::Sender::subscribe: a receiver of the messages sent from now on.
subscribe(chan) ==
    [chan |-> [chan EXCEPT !.rx_cnt = @ + 1], rx |-> [next |-> chan.pos]]

\* Dropping a receiver.
drop(chan) == [chan EXCEPT !.rx_cnt = @ - 1]

\* The position of the oldest message the channel keeps.
oldest(chan) == chan.pos - Len(chan.buffer)

\* rx.recv() has something to return.
recv_ready(chan, receiver) == receiver.next < chan.pos

\* A recv that would go on with the oldest message kept after it lagged.
broadcast_recv_SkippingLagged(chan, receiver) ==
    LET at_ == IF receiver.next < oldest(chan) THEN oldest(chan) ELSE receiver.next
    IN  [result |-> "Ok",
         msg |-> chan.buffer[at_ - oldest(chan) + 1],
         rx |-> [next |-> at_ + 1]]

\* broadcast::Receiver::recv when it is ready: Err(Lagged) when the message
\* it is at is no longer kept, the receiver moving to the oldest one kept;
\* else the message it is at.  (The channel is never closed: AppState holds a
\* Sender as long as the server runs.)
broadcast_recv(chan, receiver) ==
    IF receiver.next < oldest(chan)
    THEN [result |-> "Err", rx |-> [next |-> oldest(chan)]]
    ELSE [result |-> "Ok",
          msg |-> chan.buffer[receiver.next - oldest(chan) + 1],
          rx |-> [next |-> receiver.next + 1]]

\* WebSocket::send: it succeeds on an open socket; once the client has
\* closed or the connection is broken it succeeds or fails.
socket_send(sock) ==
    IF sock.state = "open" THEN {"Ok"} ELSE {"Ok", "Err"}

\* socket.recv() has something to return.
socket_ready(sock) == sock.inbox > 0 \/ sock.state # "open"

\* WebSocket::recv when it is ready: a message of the client, Some(Err) once
\* for a broken connection, None for a stream that has ended.
socket_recv(sock) ==
    IF sock.inbox > 0
    THEN [result |-> "Some(Ok)", sock |-> [sock EXCEPT !.inbox = 0]]
    ELSE IF sock.state = "broken"
    THEN [result |-> "Some(Err)", sock |-> [sock EXCEPT !.state = "ended"]]
    ELSE [result |-> "None", sock |-> sock]

SocketInit ==
    /\ BuilderIdle
    /\ RenderIdle
    /\ NavIdle
    /\ SiteIdle
    /\ ServeIdle
    /\ ConfigIdle
    /\ ScanIdle
    /\ RendererIdle
    /\ ReloadIdle
    /\ InjectIdle
    /\ bus = channel(BroadcastCap)
    /\ conn = [c \in Conns |->
                  [pc |-> "upgrade", rx |-> None, subscribed |-> None,
                   last |-> None]]
    /\ socket = [c \in Conns |-> [state |-> "open", inbox |-> 0]]
    /\ wire = [c \in Conns |-> <<>>]

\* The file watcher's reload_tx.send("reload").
Broadcast ==
    /\ bus # <<>>
    /\ bus.sends < MaxBroadcasts
    /\ bus' = broadcast_send(bus, <<"r", "e", "l", "o", "a", "d">>)
    /\ UNCHANGED <<conn, socket, wire>>
    /\ UNCHANGED <<builderVars, renderVars, navVars, siteVars, serveVars,
                   configVars, scanVars, rendererVars, reloadVars, injectVars>>

\* The client sends a message.
ClientSends(c) ==
    /\ socket[c].state = "open"
    /\ socket[c].inbox = 0
    /\ socket' = [socket EXCEPT ![c].inbox = 1]
    /\ UNCHANGED <<bus, conn, wire>>
    /\ UNCHANGED <<builderVars, renderVars, navVars, siteVars, serveVars,
                   configVars, scanVars, rendererVars, reloadVars, injectVars>>

\* The client closes the socket, or the connection breaks.
ClientLeaves(c) ==
    /\ socket[c].state = "open"
    /\ \E state \in {"ended", "broken"} :
          socket' = [socket EXCEPT ![c].state = state]
    /\ UNCHANGED <<bus, conn, wire>>
    /\ UNCHANGED <<builderVars, renderVars, navVars, siteVars, serveVars,
                   configVars, scanVars, rendererVars, reloadVars, injectVars>>

\* websocket_connection begins: it subscribes to the channel.
Subscribe(c) ==
    /\ conn[c].pc = "upgrade"
    /\ LET s == subscribe(bus)
       IN  /\ bus' = s.chan
           /\ conn' = [conn EXCEPT ![c] =
                  [pc |-> "connect", rx |-> Some(s.rx),
                   subscribed |-> Some(s.rx.next), last |-> None]]
    /\ UNCHANGED <<socket, wire>>
    /\ UNCHANGED <<builderVars, renderVars, navVars, siteVars, serveVars,
                   configVars, scanVars, rendererVars, reloadVars, injectVars>>

\* The connection's end: the function returns and its receiver is dropped.
Returns(c, why) ==
    /\ conn' = [conn EXCEPT ![c].pc = "done", ![c].rx = None,
                            ![c].last = Some(why)]
    /\ bus' = drop(bus)

\* The initial confirmation is sent, or the function returns.
SendConnected(c) ==
    /\ conn[c].pc = "connect"
    /\ \E sent_ \in socket_send(socket[c]) :
          IF sent_ = "Err"
          THEN /\ Returns(c, "send failed")
               /\ UNCHANGED wire
          ELSE /\ wire' = [wire EXCEPT ![c] =
                      Append(@, [text |-> <<"c", "o", "n", "n", "e", "c", "t", "e", "d">>, pos |-> None])]
               /\ conn' = [conn EXCEPT ![c].pc = "loop",
                                       ![c].last = Some("sent")]
               /\ UNCHANGED bus
    /\ UNCHANGED socket
    /\ UNCHANGED <<builderVars, renderVars, navVars, siteVars, serveVars,
                   configVars, scanVars, rendererVars, reloadVars, injectVars>>

\* A turn of the loop in which select! takes rx.recv(): the message is
\* sent to the client, and the loop ends when that fails or when the
\* receiver returns an error.
TurnBroadcast(c) ==
    /\ conn[c].pc = "loop"
    /\ recv_ready(bus, conn[c].rx[1])
    /\ LET r == broadcast_recv(bus, conn[c].rx[1])
       IN  IF r.result = "Err"
           THEN /\ Returns(c, "receiver error")
                /\ UNCHANGED wire
           ELSE \E sent_ \in socket_send(socket[c]) :
                   IF sent_ = "Err"
                   THEN /\ Returns(c, "send failed")
                        /\ UNCHANGED wire
                   ELSE /\ wire' = [wire EXCEPT ![c] =
                               Append(@, [text |-> r.msg.msg,
                                          pos |-> Some(r.msg.pos)])]
                        /\ conn' = [conn EXCEPT ![c].rx = Some(r.rx),
                                                ![c].last = Some("sent")]
                        /\ UNCHANGED bus
    /\ UNCHANGED socket
    /\ UNCHANGED <<builderVars, renderVars, navVars, siteVars, serveVars,
                   configVars, scanVars, rendererVars, reloadVars, injectVars>>

\* A turn of the loop in which select! takes socket.recv(): the loop ends on
\* None and goes on otherwise.
TurnSocket(c) ==
    /\ conn[c].pc = "loop"
    /\ socket_ready(socket[c])
    /\ LET r == socket_recv(socket[c])
       IN  /\ socket' = [socket EXCEPT ![c] = r.sock]
           /\ IF r.result = "None"
              THEN Returns(c, "client closed")
              ELSE /\ conn' = [conn EXCEPT ![c].last = Some(r.result)]
                   /\ UNCHANGED bus
    /\ UNCHANGED wire
    /\ UNCHANGED <<builderVars, renderVars, navVars, siteVars, serveVars,
                   configVars, scanVars, rendererVars, reloadVars, injectVars>>

SocketNext ==
    \/ Broadcast
    \/ \E c \in Conns :
          \/ ClientSends(c)
          \/ ClientLeaves(c)
          \/ Subscribe(c)
          \/ SendConnected(c)
          \/ TurnBroadcast(c)
          \/ TurnSocket(c)

SpecSocket == SocketInit /\ [][SocketNext]_vars

\* C37: what a connection has sent to its client is "connected" followed by
\* the messages broadcast after its subscription, each once and in the order
\* of their positions with none left out; while the loop runs the next
\* message it will take is the one after the last it sent; and the function
\* has returned exactly when a send to the client failed, socket.recv()
\* returned None, or the receiver returned an error.
C37_ForwardsInOrder ==
    \A c \in Conns :
       LET k == conn[c]
           w == wire[c]
       IN  /\ k.pc \in {"upgrade", "connect"} => w = <<>>
           /\ w # <<>> => w[1] = [text |-> <<"c", "o", "n", "n", "e", "c", "t", "e", "d">>, pos |-> None]
           /\ \A i \in 2..Len(w) :
                 /\ w[i].text = <<"r", "e", "l", "o", "a", "d">>
                 /\ w[i].pos = Some(k.subscribed[1] + i - 2)
           /\ k.pc = "loop" =>
                 /\ w # <<>>
                 /\ k.rx[1].next = k.subscribed[1] + Len(w) - 1
                 /\ k.rx[1].next <= bus.pos
           /\ k.pc = "done" <=>
                 k.last \in {Some("send failed"), Some("client closed"),
                             Some("receiver error")}
           /\ k.last = Some("client closed") => socket[c].state = "ended"
           /\ k.last = Some("send failed") => socket[c].state # "open"

\* C37 witness: connection "b" subscribed after the first message, got
\* "connected" and the second and third message; connection "a", subscribed
\* before the first message, fell behind the channel's capacity and ended.
C37_Witness ==
    /\ conn["b"].subscribed = Some(1)
    /\ Len(wire["b"]) = 3
    /\ wire["b"][2].pos = Some(1)
    /\ wire["b"][3].pos = Some(2)
    /\ conn["b"].pc = "loop"
    /\ conn["a"].subscribed = Some(0)
    /\ conn["a"].last = Some("receiver error")
    /\ Len(wire["a"]) = 1
\* ------------------------------- Livereload injection: zap-cli/src/cmd/serve.rs
\*
\* build_site_with_livereload builds the site into the output directory and
\* then puts the livereload script into every HTML file it finds there.  The
\* content of a file is a sequence of pieces: tags, text, and the script.

\* The calls of build_site_with_livereload in one run.
MaxRounds == 3

\* The output paths of the pages a source may hold.
OutPaths ==
    { <<<<"i", "n", "d", "e", "x", ".", "h", "t", "m", "l">>>>,
      <<<<"d", "o", "c", "s">>, <<"b", ".", "h", "t", "m", "l">>>> }

\* What the theme's templates make of a page: with a head and a body, with a
\* body only, with neither.
Layouts ==
    { << "<head>", "</head>", "<body>", "text", "</body>" >>,
      << "<body>", "text", "</body>" >>,
      << "text" >> }

\* A file of the output directory that no build writes.
StaticFile == << <<"r", "o", "b", "o", "t", "s", ".", "t", "x", "t">> >>

\* str::rfind: the place of the last occurrence of a piece, None if there
\* is none.
rfind(html_, piece) ==
    LET found == { i \in 1..Len(html_) : html_[i] = piece }
    IN  IF found = {} THEN None
        ELSE Some(CHOOSE i \in found : \A j \in found : j <= i)

\* html[..pos] + script + html[pos..].
InsertAt(html_, pos) ==
    SubSeq(html_, 1, pos - 1) \o << "script" >> \o SubSeq(html_, pos, Len(html_))

\* serve::inject_livereload_script.
inject_livereload_script(html_) ==
    IF rfind(html_, "</head>") # None
    THEN InsertAt(html_, rfind(html_, "</head>")[1])
    ELSE IF rfind(html_, "</body>") # None
    THEN InsertAt(html_, rfind(html_, "</body>")[1])
    ELSE html_ \o << "script" >>

\* The test of process_directory for an HTML file.
is_html(path) == extension(path) = Some(<<"h", "t", "m", "l">>)

\* inject_livereload_into_html_files: every HTML file of the directory is
\* read, injected, and written back when that changed it.
inject_livereload_into_html_files(dir) ==
    [path \in DOMAIN dir |->
        IF is_html(path)
        THEN LET content == dir[path]
                 updated_content == inject_livereload_script(content)
             IN  IF content # updated_content THEN updated_content
                                              ELSE content
        ELSE dir[path]]

\* Site::render_all on a directory: the directory is not cleared, and the
\* pages that get rendered are written over what is there.
render_all_into(dir, written, layout) ==
    [path \in DOMAIN dir \cup written |->
        IF path \in written THEN layout ELSE dir[path]]

\* The injected scripts of a file.
Scripts(content) == Cardinality({ i \in 1..Len(content) : content[i] = "script" })

InjectInit ==
    /\ BuilderIdle
    /\ RenderIdle
    /\ NavIdle
    /\ SiteIdle
    /\ ServeIdle
    /\ ConfigIdle
    /\ ScanIdle
    /\ RendererIdle
    /\ ReloadIdle
    /\ SocketIdle
    /\ sourcePages \in (SUBSET OutPaths) \ {{}}
    /\ outputDir \in { [path \in {} |-> << >>],
                       [path \in {StaticFile} |-> << "text" >>] }
    /\ rounds = <<>>

\* The source is edited between two builds: pages come and go.
SourceChanges ==
    /\ rounds # <<>>
    /\ Len(rounds) < MaxRounds
    /\ \E now_ \in (SUBSET OutPaths) \ {{}, sourcePages} : sourcePages' = now_
    /\ UNCHANGED <<outputDir, rounds>>
    /\ UNCHANGED <<builderVars, renderVars, navVars, siteVars, serveVars,
                   configVars, scanVars, rendererVars, reloadVars, socketVars>>

\* build_site_with_livereload: build_site writes the pages of the source,
\* then the script is injected; when build_site fails, after some of the
\* pages, nothing is injected.
BuildSiteWithLivereload ==
    /\ sourcePages # {}
    /\ Len(rounds) < MaxRounds
    /\ \E layout \in Layouts :
          \/ /\ outputDir' = inject_livereload_into_html_files(
                                 render_all_into(outputDir, sourcePages, layout))
             /\ rounds' = Append(rounds, [result |-> "Ok", written |-> sourcePages])
          \/ \E written \in (SUBSET sourcePages) \ {sourcePages} :
                /\ outputDir' = render_all_into(outputDir, written, layout)
                /\ rounds' = Append(rounds, [result |-> "Err", written |-> written])
    /\ UNCHANGED sourcePages
    /\ UNCHANGED <<builderVars, renderVars, navVars, siteVars, serveVars,
                   configVars, scanVars, rendererVars, reloadVars, socketVars>>

InjectNext ==
    \/ SourceChanges
    \/ BuildSiteWithLivereload

SpecInject == InjectInit /\ [][InjectNext]_vars

\* C38: when build_site_with_livereload has returned Ok, for the first time
\* or after any number of rebuilds, every HTML file of the output directory
\* holds exactly one livereload script, the files the last build did not
\* write included.
C38_OneScriptPerFile ==
    (rounds # <<>> /\ Last(rounds).result = "Ok") =>
        \A path \in DOMAIN outputDir :
            is_html(path) => Scripts(outputDir[path]) = 1
\* C34: when a rebuild the watcher called has returned an error the watcher
\* is back at the head of its loop, and every path it has received from the
\* source, theme or config watch, after a failed rebuild as before one, made
\* it call build_site_with_livereload, while a path outside all three made
\* it call nothing.
C34_FailedRebuildKeepsWatching ==
    /\ ( /\ mainPc = "join"
         /\ builds # <<>>
         /\ Last(builds) = [by |-> "watcher", stage |-> "err"] )
       => watcherPc = "recv"
    /\ \A i \in DOMAIN taken :
          taken[i].called <=> taken[i].path.of # "outside"

====
